---- MODULE Spec2Model ----
(***************************************************************************)
(* Job board API: the role-authorization gate (RoleAuthorizationMiddleware) *)
(* in front of the route handlers, the route-policy table it consults, the  *)
(* handler-level principal resolution (get_current_user) and the users      *)
(* table both of them read.                                                 *)
(*                                                                          *)
(* Strings that are matched against regular expressions (request paths) are *)
(* sequences of one-character strings, so a match is computed character by  *)
(* character the way re.match computes it.                                  *)
(***************************************************************************)
EXTENDS Integers, Sequences, FiniteSets, TLC

VARIABLES
    role_map,   \* RoleAuthorizationMiddleware.role_map: ordered (pattern, roles) pairs
    users,      \* rows of the users table: [id, email, role]
    next_id,    \* next primary key of the users table
    now,        \* wall clock, in token-lifetime units
    req,        \* the request in flight through gate and handler
    pol,        \* result of the last stand-alone policy lookup
    prof,       \* a job-seeker row and the completion score computed for it
    db,         \* rows of the profile, company, listing and application tables
    ops,        \* per client: the resource request it has in flight
    patch,      \* a PATCH request, the two rows of the table it addresses, its status
    recipe_api  \* the Recipe API: its users, its recipes and its last response

vars == <<role_map, users, next_id, now, req, pol, prof, db, ops, patch, recipe_api>>

\* State outside the gate, the users table and the policy lookup.
others == <<prof, db, ops, patch, recipe_api>>

\* ---------------------------------------------------------------- bounds
MaxTime == 1        \* the clock stops advancing here
MaxUserId == 2      \* primary keys handed out by the users table
MaxTable == 2       \* entries of an arbitrary route-policy table
MaxSuffix == 3      \* characters appended to a resource prefix
MaxRows == 2        \* rows ever inserted into a table other than users
MaxApplied == 2      \* applications ever inserted by concurrent applicants
MaxRecipes == 2      \* recipes ever inserted
TokenLife == 1      \* ACCESS_TOKEN_EXPIRE_MINUTES, in clock units
MaxOwned == 1     \* rows ever inserted into recruiters, companies, listings, applications (each)

\* ------------------------------------------------------- path strings
S_root ==
    <<"/">>

S_users_login ==
    <<"/", "u", "s", "e", "r", "s", "/", "l", "o", "g", "i", "n">>

S_users_register ==
    <<"/", "u", "s", "e", "r", "s", "/", "r", "e", "g", "i", "s", "t", "e", "r">>

S_users_me ==
    <<"/", "u", "s", "e", "r", "s", "/", "m", "e">>

S_recruiters ==
    <<"/", "r", "e", "c", "r", "u", "i", "t", "e", "r", "s">>

S_applications ==
    <<"/", "a", "p", "p", "l", "i", "c", "a", "t", "i", "o", "n", "s">>

S_seekers ==
    <<"/", "s", "e", "e", "k", "e", "r", "s">>

S_listings ==
    <<"/", "l", "i", "s", "t", "i", "n", "g", "s">>

S_companies ==
    <<"/", "c", "o", "m", "p", "a", "n", "i", "e", "s">>

S_search ==
    <<"/", "s", "e", "a", "r", "c", "h">>

S_completion ==
    <<"/", "c", "o", "m", "p", "l", "e", "t", "i", "o", "n">>

S_health ==
    <<"/", "h", "e", "a", "l", "t", "h">>

\* ------------------------------------------------- regular expressions
\* A pattern is a sequence of items; each item is one of the constructs the
\* configured patterns use.
Lit(ch) == [k |-> "lit", c |-> ch, r |-> <<>>]

Lits(s) == [i \in 1..Len(s) |-> Lit(s[i])]

AnyStar == [k |-> "anystar", c |-> "", r |-> <<>>]

Digits == [k |-> "digits", c |-> "", r |-> <<>>]

Opt(sub) == [k |-> "opt", c |-> "", r |-> sub]

Bol == [k |-> "bol", c |-> "", r |-> <<>>]

Eol == [k |-> "eol", c |-> "", r |-> <<>>]

OptSlash == Opt(<<Lit("/")>>)

IsDigit(ch) == ch \in {"0", "1", "2", "3", "4", "5", "6", "7", "8", "9"}

\* The set of positions the matcher can stand at after consuming pattern
\* `pat` from any position of P in string s (position Len(s)+1 is the end).
\* No path holds a newline, so `.` matches every character and `$` only
\* the end of the string.
RECURSIVE MatchFrom(_, _, _)
MatchFrom(pat, s, P) ==
    IF pat = <<>> THEN P
    ELSE LET e == Head(pat)
             end == Len(s) + 1
             Q == CASE e.k = "lit" ->
                         {p + 1 : p \in {q \in P : q <= Len(s) /\ s[q] = e.c}}
                    [] e.k = "anystar" ->
                         {q \in 1..end : \E p \in P : p <= q}
                    [] e.k = "digits" ->
                         {q \in 1..end : \E p \in P :
                              /\ p < q
                              /\ \A i \in p..(q - 1) : IsDigit(s[i])}
                    [] e.k = "seg" ->
                         {q \in 1..end : \E p \in P :
                              /\ p < q
                              /\ \A i \in p..(q - 1) : s[i] # "/"}
                    [] e.k = "opt" -> P \cup MatchFrom(e.r, s, P)
                    [] e.k = "bol" -> {p \in P : p = 1}
                    [] e.k = "eol" -> {p \in P : p = end}
         IN  MatchFrom(Tail(pat), s, Q)

\* A compiled pattern matches at the start of the string.
matches(pat, s) == MatchFrom(pat, s, {1}) # {}

\* ------------------------------------------------------ configuration
job_seeker == "Job Seeker"

recruiter == "Recruiter"

roles == {job_seeker, recruiter}

\* r"<prefix>/?$": the prefix itself only, no further segments.
ResourcePatternExact(prefix) == Lits(prefix) \o <<OptSlash, Eol>>

\* r"<prefix>(/.*)?$"
ResourcePattern(prefix) == Lits(prefix) \o <<Opt(<<Lit("/"), AnyStar>>), Eol>>

\* The compiled form of a pattern of a route-policy table, by its source text.
re_compile(src) ==
    CASE src = "/recruiters(/.*)?$"   -> ResourcePattern(S_recruiters)
      [] src = "/applications(/.*)?$" -> ResourcePattern(S_applications)
      [] src = "/seekers(/.*)?$"      -> ResourcePattern(S_seekers)
      [] src = "/listings(/.*)?$"     -> ResourcePattern(S_listings)
      [] src = "/companies(/.*)?$"    -> ResourcePattern(S_companies)
      [] src = "/listings/[0-9]+/?$"  -> Lits(S_listings) \o <<Lit("/"), Digits, OptSlash, Eol>>
      [] src = "/.*"                  -> <<Lit("/"), AnyStar>>

\* re.match(pattern, path) for a pattern of a route-policy table.
re_match(src, s) == matches(re_compile(src), s)

\* A policy table that opens both profile resources to both roles.
ROLE_MAP_profiles_shared ==
    << [pattern |-> "/recruiters(/.*)?$",   roles |-> {recruiter, job_seeker}],
       [pattern |-> "/applications(/.*)?$", roles |-> {recruiter, job_seeker}],
       [pattern |-> "/seekers(/.*)?$",      roles |-> {recruiter, job_seeker}],
       [pattern |-> "/listings(/.*)?$",     roles |-> {recruiter, job_seeker}],
       [pattern |-> "/companies(/.*)?$",    roles |-> {recruiter, job_seeker}] >>

ROLE_MAP ==
    << [pattern |-> "/recruiters(/.*)?$",   roles |-> {recruiter}],
       [pattern |-> "/applications(/.*)?$", roles |-> {recruiter, job_seeker}],
       [pattern |-> "/seekers(/.*)?$",      roles |-> {job_seeker}],
       [pattern |-> "/listings(/.*)?$",     roles |-> {recruiter, job_seeker}],
       [pattern |-> "/companies(/.*)?$",    roles |-> {recruiter, job_seeker}] >>

\* r"^<prefix>/?$"
CollectionPattern(prefix) == <<Bol>> \o Lits(prefix) \o <<OptSlash, Eol>>

\* r"^<prefix>/\d+/?$"
ItemPattern(prefix) == <<Bol>> \o Lits(prefix) \o <<Lit("/"), Digits, OptSlash, Eol>>

BYPASS_MIDDLEWARE_PATHS ==
    << <<Bol, Lit("/"), Eol>>,
       CollectionPattern(S_users_login), CollectionPattern(S_users_register),
       CollectionPattern(S_companies), ItemPattern(S_companies),
       CollectionPattern(S_listings), ItemPattern(S_listings),
       CollectionPattern(S_seekers), ItemPattern(S_seekers),
       CollectionPattern(S_recruiters), ItemPattern(S_recruiters) >>

\* --------------------------------------------------- policy lookup
NoPolicy == [matched |-> FALSE, roles |-> {}]

Policy(rs) == [matched |-> TRUE, roles |-> rs]

\* dispatch, lines 50-54: the loop over role_map.items() with its break.
RECURSIVE MatchLoop(_, _, _)
MatchLoop(table, path, i) ==
    IF i > Len(table) THEN NoPolicy
    ELSE IF re_match(table[i].pattern, path) THEN Policy(table[i].roles)
    ELSE MatchLoop(table, path, i + 1)

\* The same loop without the break: the last matching entry wins.
RECURSIVE MatchLoopNoBreak(_, _, _, _)
MatchLoopNoBreak(table, path, i, acc) ==
    IF i > Len(table) THEN acc
    ELSE MatchLoopNoBreak(table, path, i + 1,
             IF re_match(table[i].pattern, path) THEN Policy(table[i].roles) ELSE acc)

required_roles_last(table, path) == MatchLoopNoBreak(table, path, 1, NoPolicy)

required_roles(table, path) == MatchLoop(table, path, 1)

\* dispatch, lines 57-58: some bypass pattern matches the path.
bypass_match(path) ==
    \E i \in 1..Len(BYPASS_MIDDLEWARE_PATHS) : matches(BYPASS_MIDDLEWARE_PATHS[i], path)

\* ------------------------------------------------------------ tokens
Emails == {"a@x.io", "b@x.io"}

\* A token signed with SECRET_KEY carries a subject and an expiry; the others
\* are what a client can send instead: a forged signature, a string that is
\* no JWT, a signed token without "sub", the empty string.
ExpiryTimes == {1, MaxTime + 1}

SignedTokens == [kind : {"signed"}, sub : Emails, exp : ExpiryTimes]

BadTokens ==
    { [kind |-> "badsig",    sub |-> "a@x.io", exp |-> MaxTime + 1],
      [kind |-> "malformed", sub |-> "",       exp |-> 0],
      [kind |-> "nosub",     sub |-> "",       exp |-> MaxTime + 1],
      [kind |-> "empty",     sub |-> "",       exp |-> 0] }

Tokens == SignedTokens \cup BadTokens

\* A verify_token that returns None where it should raise.
verify_token_returns_none(token, t) ==
    IF token.kind = "signed" /\ t < token.exp
    THEN [raised |-> FALSE, username |-> token.sub]
    ELSE [raised |-> FALSE, username |-> ""]

\* auth.verify_token at time t: the subject, or a raised exception.
verify_token(token, t) ==
    IF token.kind = "signed" /\ t < token.exp
    THEN [raised |-> FALSE, username |-> token.sub]
    ELSE [raised |-> TRUE, username |-> ""]

\* ----------------------------------------------------------- headers
\* The Authorization header: absent, or "<scheme> <cred>".
NoHeader == [scheme |-> "", cred |-> [kind |-> "empty", sub |-> "", exp |-> 0]]

LongLived == [kind |-> "signed", sub |-> "a@x.io", exp |-> MaxTime + 1]

Headers ==
    {NoHeader}
    \cup [scheme : {"Bearer"}, cred : Tokens]
    \cup [scheme : {"bearer", "Basic"}, cred : {LongLived}]

\* The same test made case-insensitively.
starts_with_bearer_ci(h) == h.scheme \in {"Bearer", "bearer"}

\* request.headers.get("authorization") is truthy and starts with "Bearer ".
starts_with_bearer(h) == h.scheme = "Bearer"

\* ------------------------------------------------------------- paths
Slash(s) == s \o <<"/">>

Item(s) == s \o <<"/", "4">>

Paths ==
    { S_root, S_users_me, S_health,
      S_recruiters, Slash(S_recruiters), Item(S_recruiters),
      Slash(S_seekers), Item(S_seekers), Item(S_seekers) \o S_completion,
      Slash(S_listings), S_listings \o S_search,
      Slash(S_companies),
      Slash(S_applications), Item(S_applications) }

Methods == {"GET", "POST", "PATCH", "DELETE"}

Resources == {S_recruiters, S_applications, S_seekers, S_listings, S_companies}

\* ------------------------------------------------------- users table
\* get_db_user_by_username: the rows whose email is the username (email is
\* unique, so .first() has at most one row to return).
get_db_user_by_username(rows, username) == {u \in rows : u.email = username}

\* check_user_role: TRUE iff no HTTPException(403) is raised.
\* A role check that never raises.
check_user_role_any(user, allowed_roles) == TRUE

check_user_role(user, allowed_roles) == user.role \in allowed_roles

\* ----------------------------------------------------------- request
IdleReq ==
    [ pc |-> "idle", method |-> "GET", path |-> S_root, header |-> NoHeader,
      required |-> NoPolicy,    \* dispatch's required_roles
      username |-> "",          \* subject the gate verified
      t_verify |-> 0,           \* time at which the gate verified the token
      header_read |-> FALSE,    \* the gate read the Authorization header
      gate_sessions |-> 0,      \* sessions the gate acquired
      gate_open |-> FALSE,      \* the gate holds a session
      gate_lookups |-> 0,       \* principal lookups the gate performed
      gate_role |-> "",         \* role of the principal the gate found
      forwarded |-> FALSE,      \* call_next was invoked
      h_username |-> "",        \* subject the handler dependency verified
      ran |-> FALSE,            \* the route function was entered
      body |-> "none",          \* kind of response body
      by |-> "none",            \* who produced the response
      status |-> 0 ]            \* response status code, 0 while undecided

GateResponse(r, code) ==
    [r EXCEPT !.pc = "done", !.by = "gate", !.status = code, !.gate_open = FALSE]

HandlerResponse(r, code, b) ==
    [r EXCEPT !.pc = "done", !.by = "handler", !.status = code, !.body = b]

CallNext(r) == [r EXCEPT !.pc = "handler", !.forwarded = TRUE, !.gate_open = FALSE]

\* ------------------------------------------------------------- gate
\* A gate without the public-read bypass.
is_bypassed_never(method, path) == FALSE

\* dispatch, lines 56-58: a GET whose path matches a bypass pattern.
is_bypassed(method, path) == method = "GET" /\ bypass_match(path)

\* Authentication that swallows the verification error and goes on to the
\* principal lookup with the subject the token names.
gate_authenticate_unverified(r, t) ==
    IF ~starts_with_bearer(r.header) THEN GateResponse(r, 401)
    ELSE [r EXCEPT !.pc = "gate_db", !.username = r.header.cred.sub,
                   !.t_verify = t,
                   !.gate_sessions = @ + 1, !.gate_open = TRUE]

\* dispatch, lines 64-84: header check, token verification, session opened.
gate_authenticate(r, t) ==
    IF ~starts_with_bearer(r.header) THEN GateResponse(r, 401)
    ELSE LET v == verify_token(r.header.cred, t)
         IN  IF v.raised THEN GateResponse(r, 401)
             ELSE [r EXCEPT !.pc = "gate_db", !.username = v.username,
                            !.t_verify = t,
                            !.gate_sessions = @ + 1, !.gate_open = TRUE]

\* dispatch, lines 56-84, once the policy lookup and the bypass test are made.
gate_decide(r1, bypassed, t) ==
    IF bypassed THEN CallNext(r1)
    ELSE IF ~r1.required.matched THEN CallNext(r1)
    ELSE gate_authenticate([r1 EXCEPT !.header_read = TRUE], t)

\* A gate that demands authentication where no policy entry matches.
gate_entry_deny_default(r, table, t) ==
    LET required == required_roles(table, r.path)
        r1 == [r EXCEPT !.required = required]
    IN  IF is_bypassed(r.method, r.path) THEN CallNext(r1)
        ELSE gate_authenticate([r1 EXCEPT !.header_read = TRUE], t)

\* dispatch, lines 47-84: everything up to the first await on the datastore.
gate_entry(r, table, t) ==
    gate_decide([r EXCEPT !.required = required_roles(table, r.path)],
                is_bypassed(r.method, r.path), t)

\* A gate that invokes call_next inside the session block: the session stays
\* held while the handler runs.
gate_lookup_held(r, rows) ==
    LET found == get_db_user_by_username(rows, r.username)
        r1 == [r EXCEPT !.gate_lookups = @ + 1]
    IN  IF found = {} THEN GateResponse(r1, 401)
        ELSE LET user == CHOOSE u \in found : TRUE
                 r2 == [r1 EXCEPT !.gate_role = user.role]
             IN  IF ~check_user_role(user, r.required.roles)
                 THEN GateResponse(r2, 403)
                 ELSE [r2 EXCEPT !.pc = "handler", !.forwarded = TRUE]

\* dispatch, lines 85-100: principal lookup, role check, session released.
gate_lookup(r, rows) ==
    LET found == get_db_user_by_username(rows, r.username)
        r1 == [r EXCEPT !.gate_lookups = @ + 1]
    IN  IF found = {} THEN GateResponse(r1, 401)
        ELSE LET user == CHOOSE u \in found : TRUE
                 r2 == [r1 EXCEPT !.gate_role = user.role]
             IN  IF ~check_user_role(user, r.required.roles)
                 THEN GateResponse(r2, 403)
                 ELSE CallNext(r2)

\* ----------------------------------------------------------- routing
Seg == [k |-> "seg", c |-> "", r |-> <<>>]

Exact(s) == <<Bol>> \o Lits(s) \o <<Eol>>

ItemRoute(prefix) == <<Bol>> \o Lits(prefix) \o <<Lit("/"), Seg, Eol>>

Route(ms, pat, kind) == [methods |-> ms, pattern |-> pat, kind |-> kind]

\* The route functions of one resource router; `listing` is the kind of its
\* GET "/" route.
ResourceRoutes(prefix, listing) ==
    << Route({"GET"}, Exact(Slash(prefix)), listing),
       Route({"POST"}, Exact(Slash(prefix)), "auth"),
       Route({"GET", "PATCH", "DELETE"}, ItemRoute(prefix), "auth") >>

\* The routes in include_router order, then the welcome route.
ROUTES ==
    ResourceRoutes(S_applications, "auth")
    \o ResourceRoutes(S_companies, "list")
    \o ResourceRoutes(S_listings, "list")
    \o << Route({"GET"},
               <<Bol>> \o Lits(S_seekers) \o <<Lit("/"), Seg>> \o Lits(S_completion) \o <<Eol>>,
               "auth") >>
    \o ResourceRoutes(S_seekers, "list")
    \o ResourceRoutes(S_recruiters, "list")
    \o << Route({"POST"}, Exact(S_users_register), "open"),
          Route({"POST"}, Exact(S_users_login), "open"),
          Route({"GET"}, Exact(S_users_me), "me"),
          Route({"DELETE"}, Exact(S_users_me), "delete_me"),
          Route({"GET"}, Exact(S_root), "welcome") >>

FullMatches(method, path) ==
    {i \in 1..Len(ROUTES) : matches(ROUTES[i].pattern, path) /\ method \in ROUTES[i].methods}

PartialMatches(path) == {i \in 1..Len(ROUTES) : matches(ROUTES[i].pattern, path)}

\* The path the router retries when nothing matches (redirect_slashes).
RedirectPath(path) ==
    IF path[Len(path)] = "/" THEN SubSeq(path, 1, Len(path) - 1) ELSE Slash(path)

\* The route function that serves (method, path), or the router's own reply.
route_kind(method, path) ==
    LET full == FullMatches(method, path)
    IN  IF full # {} THEN ROUTES[CHOOSE i \in full : \A j \in full : i <= j].kind
        ELSE IF PartialMatches(path) # {} THEN "405"
        ELSE IF path # S_root /\ FullMatches(method, RedirectPath(path)) # {} THEN "307"
        ELSE "404"

\* ---------------------------------------------------------- handler
\* HTTPBearer answers 403 or, in newer framework releases, 401.
NotAuthenticatedStatus == {401, 403}

\* bearer_scheme (HTTPBearer): credentials are present under a bearer scheme.
bearer_credentials(h) == h.scheme \in {"Bearer", "bearer"} /\ h.cred.kind # "empty"

\* The route function was entered and its business logic decides the reply.
Entered(r) == [r EXCEPT !.pc = "done", !.by = "handler", !.ran = TRUE, !.body = "handler"]

\* Router and get_current_user, lines 34-45: up to the principal lookup, for
\* the route function the router selected. `na` is the status HTTPBearer
\* answers a request without credentials with.
handler_entry_kind(r, kind, t, na) ==
        CASE kind = "404" -> HandlerResponse(r, 404, "none")
          [] kind = "405" -> HandlerResponse(r, 405, "none")
          [] kind = "307" -> HandlerResponse(r, 307, "none")
          [] kind = "welcome" -> HandlerResponse([r EXCEPT !.ran = TRUE], 200, "message")
          [] kind = "open" -> Entered(r)
          [] OTHER ->
               IF ~bearer_credentials(r.header) THEN HandlerResponse(r, na, "none")
               ELSE LET v == verify_token(r.header.cred, t)
                    IN  IF v.raised THEN HandlerResponse(r, 401, "none")
                        ELSE [r EXCEPT !.pc = "handler_db", !.h_username = v.username]

handler_entry(r, t, na) == handler_entry_kind(r, route_kind(r.method, r.path), t, na)

\* get_current_user, lines 47-50, and the route function behind it.
handler_lookup_kind(r, kind, rows) ==
    LET found == get_db_user_by_username(rows, r.h_username)
        r1 == [r EXCEPT !.ran = TRUE]
    IN  IF found = {} THEN HandlerResponse(r, 404, "none")
        ELSE CASE kind = "list" -> HandlerResponse(r1, 200, "list")
               [] kind = "me" -> HandlerResponse(r1, 200, "detail")
               [] kind = "delete_me" -> HandlerResponse(r1, 204, "none")
               [] OTHER -> Entered(r)

handler_lookup(r, rows) == handler_lookup_kind(r, route_kind(r.method, r.path), rows)

\* -------------------------------------------------------- datastore
\* Rows carry their keys and references:
\*   seekers      [job_seeker_id, user_id, location]
\*   recruiters   [recruiter_id, user_id, company_id]
\*   companies    [company_id, email]
\*   listings     [listing_id, recruiter_id, company_id, title]
\*   applications [application_id, listing_id, job_seeker_id, status]
\* db.next holds the next primary key of each table.
EmptyDb ==
    [ seekers |-> {}, recruiters |-> {}, companies |-> {}, listings |-> {},
      applications |-> {},
      next |-> [ seekers |-> 1, recruiters |-> 1, companies |-> 1,
                 listings |-> 1, applications |-> 1 ] ]

\* User.email, Field(unique=True).
users_email_unique(rows) ==
    \A u1, u2 \in rows : u1.email = u2.email => u1 = u2

\* A jobseekers table without the unique index on user_id.
seekers_user_id_any(rows) == TRUE

\* JobSeekers.user_id, Field(unique=True).
seekers_user_id_unique(rows) ==
    \A s1, s2 \in rows : s1.user_id = s2.user_id => s1 = s2

\* Recruiters.user_id, Field(unique=True).
recruiters_user_id_unique(rows) ==
    \A r1, r2 \in rows : r1.user_id = r2.user_id => r1 = r2

\* Company.email, Field(unique=True).
companies_email_unique(rows) ==
    \A c1, c2 \in rows : c1.email = c2.email => c1 = c2

user_ids(rows) == {u.id : u \in rows}

foreign_keys_unchecked(rows, d) == TRUE

\* The foreign keys, Field(foreign_key=...), of the five tables.
foreign_keys_hold(rows, d) ==
    /\ \A s \in d.seekers : s.user_id \in user_ids(rows)
    /\ \A r \in d.recruiters :
         /\ r.user_id \in user_ids(rows)
         /\ r.company_id \in {c.company_id : c \in d.companies}
    /\ \A l \in d.listings :
         /\ l.recruiter_id \in {r.recruiter_id : r \in d.recruiters}
         /\ l.company_id \in {c.company_id : c \in d.companies}
    /\ \A a \in d.applications :
         /\ a.listing_id \in {l.listing_id : l \in d.listings}
         /\ a.job_seeker_id \in {s.job_seeker_id : s \in d.seekers}

\* What the database accepts at commit; anything else is an IntegrityError.
constraints_hold(rows, d) ==
    /\ users_email_unique(rows)
    /\ seekers_user_id_unique(d.seekers)
    /\ recruiters_user_id_unique(d.recruiters)
    /\ companies_email_unique(d.companies)
    /\ foreign_keys_hold(rows, d)

\* Primary keys marked for deletion, per table.
NoDel ==
    [ users |-> {}, seekers |-> {}, recruiters |-> {}, companies |-> {},
      listings |-> {}, applications |-> {} ]

\* Listings.applications, cascade "all, delete-orphan".
cascade_listings(d, L) ==
    [NoDel EXCEPT !.listings = L,
                  !.applications = {a.application_id : a \in {x \in d.applications : x.listing_id \in L}}]

\* JobSeekers.applications, cascade "all, delete-orphan".
cascade_seekers(d, S) ==
    [NoDel EXCEPT !.seekers = S,
                  !.applications = {a.application_id : a \in {x \in d.applications : x.job_seeker_id \in S}}]

\* Recruiters.job_listings, cascade "all, delete-orphan", and on from there.
cascade_recruiters(d, R) ==
    LET L == {l.listing_id : l \in {x \in d.listings : x.recruiter_id \in R}}
    IN  [cascade_listings(d, L) EXCEPT !.recruiters = R]

\* The union of two deletion marks.
del_union(a, b) ==
    [ users |-> a.users \cup b.users, seekers |-> a.seekers \cup b.seekers,
      recruiters |-> a.recruiters \cup b.recruiters,
      companies |-> a.companies \cup b.companies,
      listings |-> a.listings \cup b.listings,
      applications |-> a.applications \cup b.applications ]

\* Company.job_listings and Company.recruiters, cascade "all, delete-orphan".
cascade_companies(d, C) ==
    LET L == {l.listing_id : l \in {x \in d.listings : x.company_id \in C}}
        R == {r.recruiter_id : r \in {x \in d.recruiters : x.company_id \in C}}
    IN  [del_union(cascade_listings(d, L), cascade_recruiters(d, R))
            EXCEPT !.companies = C]

\* User.recruiter_profile and User.job_seeker_profile, cascade "all,
\* delete-orphan": the profiles loaded with the user, and on from there.
cascade_user(d, user_id, seeker_ids, recruiter_ids) ==
    [del_union(cascade_seekers(d, seeker_ids), cascade_recruiters(d, recruiter_ids))
        EXCEPT !.users = {user_id}]

\* The tables once the marked rows are deleted.
delete_rows(d, del) ==
    [d EXCEPT !.seekers = {x \in @ : x.job_seeker_id \notin del.seekers},
              !.recruiters = {x \in @ : x.recruiter_id \notin del.recruiters},
              !.companies = {x \in @ : x.company_id \notin del.companies},
              !.listings = {x \in @ : x.listing_id \notin del.listings},
              !.applications = {x \in @ : x.application_id \notin del.applications}]

delete_users(rows, del) == {u \in rows : u.id \notin del.users}

\* ------------------------------------------------- resource requests
Clients == {1, 2}

\* application_status: the values the model uses.
pending == "Pending"

accepted == "Accepted"

Locations == {"x", "y"}

CompanyEmails == {"hr@x.io"}

\* A resource request: what the client sent (header, path with its resource
\* and id, body fields),
\* what the handler resolved before committing (user_id, recruiter_id, del)
\* and the response status, 0 while undecided.
IdleOp ==
    [ pc |-> "idle", kind |-> "", table |-> "", header |-> NoHeader, id |-> 0,
      email |-> "", role |-> "", location |-> "",
      company_id |-> 0, listing_id |-> 0, job_seeker_id |-> 0,
      title |-> "", app_status |-> "",
      user_id |-> 0, recruiter_id |-> 0, del |-> NoDel, status |-> 0 ]

IdleOps == [c \in Clients |-> IdleOp]

\* -------------------------------------------------- completion scorer
\* Python's None, distinct from every text.
None == <<"None">>

\* Column values: texts are sequences of characters.
Texts == {<<>>, <<" ">>, <<"a">>, <<" ", "a", " ">>}

Salaries == {0, 10}

Whitespace == {" "}

RECURSIVE lstrip(_)
lstrip(s) == IF s # <<>> /\ Head(s) \in Whitespace THEN lstrip(Tail(s)) ELSE s

RECURSIVE rstrip(_)
rstrip(s) ==
    IF s # <<>> /\ s[Len(s)] \in Whitespace
    THEN rstrip(SubSeq(s, 1, Len(s) - 1)) ELSE s

\* str.strip()
strip(s) == rstrip(lstrip(s))

DigitChars == <<"0", "1", "2", "3", "4", "5", "6", "7", "8", "9">>

\* str() of a non-negative int.
RECURSIVE int_str(_)
int_str(n) ==
    IF n < 10 THEN <<DigitChars[n + 1]>>
    ELSE int_str(n \div 10) \o <<DigitChars[(n % 10) + 1]>>

\* JobSeekers columns: current_salary is an int, the others are texts; only
\* past_experience and skill_set are nullable.
IntFields == {"current_salary"}

\* str(value)
str(field, value) == IF field \in IntFields THEN int_str(value) ELSE value

is_None(field, value) == field \notin IntFields /\ value = None

BIO_PREREQUISITES ==
    <<"first_name", "last_name", "desired_job_title", "phone_number",
      "current_salary", "location">>

EXPERIENCE_PREREQUISITES == <<"past_experience">>

SKILL_PREREQUISITES == <<"skill_set">>

WEIGHTS == [bio |-> 50, experience |-> 30, skills |-> 20]

\* is_section_complete, lines 92-96: the loop from field i on.
RECURSIVE section_loop(_, _, _)
section_loop(seeker, fields, i) ==
    IF i > Len(fields) THEN TRUE
    ELSE LET value == seeker[fields[i]]
         IN  IF is_None(fields[i], value) \/ strip(str(fields[i], value)) = <<>>
             THEN FALSE
             ELSE section_loop(seeker, fields, i + 1)

\* A section that counts as soon as one of its fields is filled.
is_section_complete_any(seeker, fields) ==
    \E i \in 1..Len(fields) : section_loop(seeker, <<fields[i]>>, 1)

is_section_complete(seeker, fields) ==
    IF fields = <<>> THEN TRUE ELSE section_loop(seeker, fields, 1)

\* profile_completion_count, lines 114-133, for the row session.get returned.
profile_completion_count(seeker) ==
    LET bio_is_complete == is_section_complete(seeker, BIO_PREREQUISITES)
        experience_is_complete == is_section_complete(seeker, EXPERIENCE_PREREQUISITES)
        skills_is_complete == is_section_complete(seeker, SKILL_PREREQUISITES)
        score1 == IF bio_is_complete THEN WEIGHTS.bio ELSE 0
        score2 == IF experience_is_complete THEN score1 + WEIGHTS.experience ELSE score1
        overall_score == IF skills_is_complete THEN score2 + WEIGHTS.skills ELSE score2
    IN  [ overall_percentage |-> overall_score,
          bio_percentage |-> IF bio_is_complete THEN 100 ELSE 0,
          experience_percentage |-> IF experience_is_complete THEN 100 ELSE 0,
          skills_percentage |-> IF skills_is_complete THEN 100 ELSE 0 ]

\* ------------------------------------------------ partial updates
\* The fields of the request model (or the form parameters) of each PATCH
\* route: CompanyCreate, RecruitersCreate, JobSeekersUpdate, and the Form
\* parameters of update_listing and update_application.
PatchFields(table) ==
    CASE table = "companies" ->
           {"email", "name", "industry", "location", "description", "website"}
      [] table = "recruiters" ->
           {"first_name", "last_name", "company_id", "position", "phone_number"}
      [] table = "seekers" ->
           {"first_name", "last_name", "desired_job_title", "phone_number",
            "current_salary", "location", "past_experience", "skill_set"}
      [] table = "listings" ->
           {"application_deadline", "is_active", "title", "description"}
      [] table = "applications" ->
           {"listing_id", "job_seeker_id", "status", "applied_date"}

\* The fields without a default in the request model: the request is
\* answered 422 when one of them is missing.
RequiredFields(table) ==
    IF table = "companies" THEN {"email", "description", "website"} ELSE {}

\* A field the request leaves out.
Unset == "<unset>"

\* model_dump(exclude_unset=True), and the `v is not None` filter over the
\* form parameters: the fields the request supplied, with their values.
model_dump(body) == {f \in DOMAIN body : body[f] # Unset}

\* sqlmodel_update(data): the row with each supplied field set.
sqlmodel_update(row, body) ==
    [f \in DOMAIN row |-> IF f \in model_dump(body) THEN body[f] ELSE row[f]]

\* The two stored rows of a table before the request.
StoredRows(table) == [i \in 1..2 |-> [f \in PatchFields(table) |-> "old"]]

IdlePatch ==
    [ table |-> "", id |-> 0, body |-> <<>>, authorized |-> FALSE,
      rows |-> <<>>, status |-> 0 ]

\* --------------------------------------------------- Recipe API
\* No response yet.
NoResponse == [op |-> "", header |-> NoHeader, id |-> 0, status |-> 0]

\* The Recipe API after start-up: empty tables.
IdleRecipes == [users |-> {}, recipes |-> {}, next |-> 1, resp |-> NoResponse]

\* ------------------------------------------------ routing table
\* "Bearer <token>" for a token of subject e that outlives the run.
Bearer(e) == [scheme |-> "Bearer", cred |-> [kind |-> "signed", sub |-> e, exp |-> MaxTime + 1]]

Bearers == {Bearer(e) : e \in Emails}

ClientHeaders == {NoHeader} \cup Bearers

Ids == 1..MaxRows

ItemPath(prefix, id) == prefix \o <<"/">> \o int_str(id)

\* The paths of the resource requests.
ResourcePaths ==
    {S_users_register, S_users_me}
    \cup {Slash(P) : P \in Resources}
    \cup {ItemPath(P, i) : P \in Resources, i \in Ids}

\* What the middleware's tables and the app's router, both built when the
\* app is constructed, derive from method and path alone.
Routed ==
    [ m \in Methods, p \in ResourcePaths |->
        [ required |-> required_roles(ROLE_MAP, p),
          bypassed |-> is_bypassed(m, p),
          kind |-> route_kind(m, p) ] ]

\* Rows the jobseekers table can hold.
SeekerRows ==
    [ first_name : Texts, last_name : Texts, desired_job_title : Texts,
      phone_number : Texts, current_salary : Salaries, location : Texts,
      past_experience : Texts \cup {None}, skill_set : Texts \cup {None} ]

NoScore ==
    [ overall_percentage |-> 0, bio_percentage |-> 0,
      experience_percentage |-> 0, skills_percentage |-> 0 ]

FilledRow ==
    [ first_name |-> <<"a">>, last_name |-> <<"a">>, desired_job_title |-> <<"a">>,
      phone_number |-> <<"a">>, current_salary |-> 0, location |-> <<"a">>,
      past_experience |-> None, skill_set |-> None ]

IdleProf == [seeker |-> FilledRow, scored |-> FALSE, result |-> NoScore]

\* GET /seekers/completion/{id} for a stored row.
score_profile ==
    /\ ~prof.scored
    /\ prof' = [prof EXCEPT !.scored = TRUE,
                            !.result = profile_completion_count(prof.seeker)]
    /\ UNCHANGED <<role_map, users, next_id, now, req, pol, db, ops, patch, recipe_api>>

InitScore ==
    /\ role_map = ROLE_MAP
    /\ users = {}
    /\ next_id = 1
    /\ now = 0
    /\ req = IdleReq
    /\ pol = [path |-> <<>>, required |-> NoPolicy, looked |-> FALSE]
    /\ prof \in [seeker : SeekerRows, scored : {FALSE}, result : {NoScore}]
    /\ db = EmptyDb
    /\ ops = IdleOps
    /\ patch = IdlePatch
    /\ recipe_api = IdleRecipes

NextScore == score_profile

SpecScore == InitScore /\ [][NextScore]_vars

\* ----------------------------------------------------------- actions
\* A request arrives and runs through dispatch up to its first await.
Dispatch ==
    /\ req.pc = "idle"
    /\ \E m \in Methods, p \in Paths, h \in Headers :
         req' = gate_entry([IdleReq EXCEPT !.method = m, !.path = p, !.header = h],
                           role_map, now)
    /\ UNCHANGED <<role_map, users, next_id, now, pol, others>>

GateLookup ==
    /\ req.pc = "gate_db"
    /\ req' = gate_lookup(req, users)
    /\ UNCHANGED <<role_map, users, next_id, now, pol, others>>

HandlerEntry ==
    /\ req.pc = "handler"
    /\ \E na \in NotAuthenticatedStatus : req' = handler_entry(req, now, na)
    /\ UNCHANGED <<role_map, users, next_id, now, pol, others>>

HandlerLookup ==
    /\ req.pc = "handler_db"
    /\ req' = handler_lookup(req, users)
    /\ users' = IF /\ route_kind(req.method, req.path) = "delete_me"
                   /\ req'.status = 204
                THEN users \ get_db_user_by_username(users, req.h_username)
                ELSE users
    /\ UNCHANGED <<role_map, next_id, now, pol, others>>

\* The response has been sent.
Complete ==
    /\ req.pc = "done"
    /\ req' = IdleReq
    /\ UNCHANGED <<role_map, users, next_id, now, pol, others>>

\* register_user, run for another client: 400 if the email is taken.
register_user ==
    /\ next_id <= MaxUserId
    /\ \E e \in Emails, ro \in roles :
         /\ get_db_user_by_username(users, e) = {}
         /\ users' = users \cup {[id |-> next_id, email |-> e, role |-> ro]}
    /\ next_id' = next_id + 1
    /\ UNCHANGED <<role_map, now, req, pol, others>>

\* delete_user_me, run for another client.
delete_user_me ==
    /\ \E u \in users : users' = users \ {u}
    /\ UNCHANGED <<role_map, next_id, now, req, pol, others>>

Tick ==
    /\ now < MaxTime
    /\ now' = now + 1
    /\ UNCHANGED <<role_map, users, next_id, req, pol, others>>

IdlePol == [path |-> <<>>, required |-> NoPolicy, looked |-> FALSE]

Init ==
    /\ role_map = ROLE_MAP
    /\ users = {}
    /\ next_id = 1
    /\ now = 0
    /\ req = IdleReq
    /\ pol = IdlePol
    /\ prof = IdleProf
    /\ db = EmptyDb
    /\ ops = IdleOps
    /\ patch = IdlePatch
    /\ recipe_api = IdleRecipes

Next ==
    \/ Dispatch
    \/ GateLookup
    \/ HandlerEntry
    \/ HandlerLookup
    \/ Complete
    \/ register_user
    \/ delete_user_me
    \/ Tick

Spec == Init /\ [][Next]_vars

\* ------------------------------------------- stand-alone policy lookup
\* The lookup of lines 50-54 applied to bounded tables and paths.
EntryPatterns == {"/listings(/.*)?$", "/listings/[0-9]+/?$", "/.*", "/recruiters(/.*)?$"}

RoleSets == {{recruiter}, {job_seeker}}

Entries == [pattern : EntryPatterns, roles : RoleSets]

\* role_map is a dict: ordered, and no pattern is a key twice.
Tables ==
    {ROLE_MAP} \cup
    { t \in UNION {[1..n -> Entries] : n \in 0..MaxTable} :
        \A i, j \in 1..Len(t) : i # j => t[i].pattern # t[j].pattern }

SuffixChars == {"/", "4", "a"}

Suffixes == UNION {[1..n -> SuffixChars] : n \in 0..MaxSuffix}

LookupPaths == Paths \cup {P \o s : P \in Resources, s \in Suffixes}

policy_lookup ==
    /\ ~pol.looked
    /\ \E p \in LookupPaths :
         pol' = [path |-> p, required |-> required_roles(role_map, p), looked |-> TRUE]
    /\ UNCHANGED <<role_map, users, next_id, now, req, others>>

InitPolicy ==
    /\ role_map \in Tables
    /\ users = {}
    /\ next_id = 1
    /\ now = 0
    /\ req = IdleReq
    /\ pol = IdlePol
    /\ prof = IdleProf
    /\ db = EmptyDb
    /\ ops = IdleOps
    /\ patch = IdlePatch
    /\ recipe_api = IdleRecipes

NextPolicy == policy_lookup

SpecPolicy == InitPolicy /\ [][NextPolicy]_vars

\* ------------------------------------------------ resource handlers
\* One request taken through dispatch, the router and get_current_user: the
\* request record when the route function is entered (ran) or the request is
\* answered before that.
route(st, method, path, header, rows, t, na) ==
    LET r1 == gate_decide([IdleReq EXCEPT !.method = method, !.path = path,
                                          !.header = header,
                                          !.required = st.required],
                          st.bypassed, t)
        r2 == IF r1.pc = "gate_db" THEN gate_lookup(r1, rows) ELSE r1
        r3 == IF r2.pc = "handler" THEN handler_entry_kind(r2, st.kind, t, na) ELSE r2
    IN  IF r3.pc = "handler_db" THEN handler_lookup_kind(r3, st.kind, rows) ELSE r3

\* The user get_current_user returned.
current_user(r, rows) == CHOOSE u \in get_db_user_by_username(rows, r.h_username) : TRUE

\* User.job_seeker_profile and User.recruiter_profile, as loaded with the user.
job_seeker_profile(d, user) == {x \in d.seekers : x.user_id = user.id}

recruiter_profile(d, user) == {x \in d.recruiters : x.user_id = user.id}

\* The response: the request line and header it answers, the rows the
\* request had marked for deletion, and the status.
Done(op, code) ==
    [IdleOp EXCEPT !.pc = "done", !.kind = op.kind, !.table = op.table,
                   !.header = op.header, !.id = op.id, !.del = op.del,
                   !.status = code]

\* The handler awaits session.commit().
Pending(op) == [op EXCEPT !.pc = "commit"]

\* register_user, lines 23-32: up to the commit.
register_user_check(op, rows) ==
    IF get_db_user_by_username(rows, op.email) # {} THEN Done(op, 400)
    ELSE Pending(op)

\* delete_user_me, lines 73-79, behind get_current_user.
delete_user_me_check(op, rows, d, t, na) ==
    LET r == route(Routed["DELETE", S_users_me], "DELETE", S_users_me, op.header, rows, t, na)
    IN  IF ~r.ran THEN Done(op, r.status)
        ELSE LET user == current_user(r, rows)
             IN  Pending([op EXCEPT !.user_id = user.id,
                              !.del = cascade_user(d, user.id,
                                  {x.job_seeker_id : x \in job_seeker_profile(d, user)},
                                  {x.recruiter_id : x \in recruiter_profile(d, user)})])

\* create_job_seeker / create_new_seeker_profile, up to the commit.
create_new_seeker_profile(op, rows, d, t, na) ==
    LET r == route(Routed["POST", Slash(S_seekers)], "POST", Slash(S_seekers), op.header, rows, t, na)
    IN  IF ~r.ran THEN Done(op, r.status)
        ELSE LET user == current_user(r, rows)
             IN  IF job_seeker_profile(d, user) # {} THEN Done(op, 400)
                 ELSE Pending([op EXCEPT !.user_id = user.id])

\* update_seeker_profile / update_existing_seeker_profile, up to the commit.
update_existing_seeker_profile(op, rows, d, t, na) ==
    LET r == route(Routed["PATCH", ItemPath(S_seekers, op.id)], "PATCH", ItemPath(S_seekers, op.id), op.header, rows, t, na)
    IN  IF ~r.ran THEN Done(op, r.status)
        ELSE LET user == current_user(r, rows)
                 own == job_seeker_profile(d, user)
             IN  IF op.id \notin {x.job_seeker_id : x \in d.seekers} THEN Done(op, 404)
                 ELSE IF own = {} \/ op.id \notin {x.job_seeker_id : x \in own}
                 THEN Done(op, 403)
                 ELSE Pending(op)

\* delete_seeker / delete_seeker_profile_by_id, up to the commit.
delete_seeker_profile_by_id(op, rows, d, t, na) ==
    LET r == route(Routed["DELETE", ItemPath(S_seekers, op.id)], "DELETE", ItemPath(S_seekers, op.id), op.header, rows, t, na)
    IN  IF ~r.ran THEN Done(op, r.status)
        ELSE LET user == current_user(r, rows)
                 own == job_seeker_profile(d, user)
             IN  IF own # {} /\ op.id \notin {x.job_seeker_id : x \in own}
                 THEN Done(op, 403)
                 ELSE IF op.id \notin {x.job_seeker_id : x \in d.seekers}
                 THEN Done(op, 404)
                 ELSE Pending([op EXCEPT !.del = cascade_seekers(d, {op.id})])

\* add_recruiters / create_new_recruiter_profile, up to the commit.
create_new_recruiter_profile(op, rows, d, t, na) ==
    LET r == route(Routed["POST", Slash(S_recruiters)], "POST", Slash(S_recruiters), op.header, rows, t, na)
    IN  IF ~r.ran THEN Done(op, r.status)
        ELSE LET user == current_user(r, rows)
             IN  IF recruiter_profile(d, user) # {} THEN Done(op, 400)
                 ELSE Pending([op EXCEPT !.user_id = user.id])

\* delete_recruiter / delete_recruiter_profile_by_id, up to the commit.
delete_recruiter_profile_by_id(op, rows, d, t, na) ==
    LET r == route(Routed["DELETE", ItemPath(S_recruiters, op.id)], "DELETE", ItemPath(S_recruiters, op.id), op.header, rows, t, na)
    IN  IF ~r.ran THEN Done(op, r.status)
        ELSE LET user == current_user(r, rows)
                 own == recruiter_profile(d, user)
             IN  IF own # {} /\ op.id \notin {x.recruiter_id : x \in own}
                 THEN Done(op, 403)
                 ELSE IF op.id \notin {x.recruiter_id : x \in d.recruiters}
                 THEN Done(op, 404)
                 ELSE Pending([op EXCEPT !.del = cascade_recruiters(d, {op.id})])

\* The primary-key column of a table.
pk(table, row) ==
    CASE table = "seekers" -> row.job_seeker_id
      [] table = "recruiters" -> row.recruiter_id
      [] table = "companies" -> row.company_id
      [] table = "listings" -> row.listing_id
      [] table = "applications" -> row.application_id

\* create_company / create_new_company, up to the commit.
create_new_company(op, rows, d, t, na) ==
    LET r == route(Routed["POST", Slash(S_companies)], "POST", Slash(S_companies), op.header, rows, t, na)
    IN  IF ~r.ran THEN Done(op, r.status)
        ELSE LET user == current_user(r, rows)
             IN  IF user.role # recruiter THEN Done(op, 403)
                 ELSE Pending(op)

\* delete_company / delete_company_by_id, up to the commit.
delete_company_by_id(op, rows, d, t, na) ==
    LET r == route(Routed["DELETE", ItemPath(S_companies, op.id)], "DELETE", ItemPath(S_companies, op.id), op.header, rows, t, na)
    IN  IF ~r.ran THEN Done(op, r.status)
        ELSE LET user == current_user(r, rows)
             IN  IF op.id \notin {x.company_id : x \in d.companies} THEN Done(op, 404)
                 ELSE IF user.role # recruiter THEN Done(op, 403)
                 ELSE Pending([op EXCEPT !.del = cascade_companies(d, {op.id})])

\* create_listing / create_new_listing, up to the commit.
create_new_listing(op, rows, d, t, na) ==
    LET r == route(Routed["POST", Slash(S_listings)], "POST", Slash(S_listings), op.header, rows, t, na)
    IN  IF ~r.ran THEN Done(op, r.status)
        ELSE LET user == current_user(r, rows)
                 own == recruiter_profile(d, user)
             IN  IF job_seeker_profile(d, user) # {} THEN Done(op, 403)
                 ELSE IF own = {} THEN Done(op, 404)
                 ELSE IF op.company_id \notin {x.company_id : x \in d.companies}
                 THEN Done(op, 400)
                 ELSE Pending([op EXCEPT !.recruiter_id =
                                   (CHOOSE x \in own : TRUE).recruiter_id])

\* delete_listing / delete_listing_by_id, up to the commit.
delete_listing_by_id(op, rows, d, t, na) ==
    LET r == route(Routed["DELETE", ItemPath(S_listings, op.id)], "DELETE", ItemPath(S_listings, op.id), op.header, rows, t, na)
    IN  IF ~r.ran THEN Done(op, r.status)
        ELSE LET user == current_user(r, rows)
             IN  IF op.id \notin {x.listing_id : x \in d.listings} THEN Done(op, 404)
                 ELSE IF user.role # recruiter THEN Done(op, 403)
                 ELSE Pending([op EXCEPT !.del = cascade_listings(d, {op.id})])

\* create_application / create_new_application, up to the commit. A missing
\* listing makes the helper return a tuple, which session.add rejects with an
\* UnmappedInstanceError: 500.
create_new_application(op, rows, d, t, na) ==
    LET r == route(Routed["POST", Slash(S_applications)], "POST", Slash(S_applications), op.header, rows, t, na)
    IN  IF ~r.ran THEN Done(op, r.status)
        ELSE LET user == current_user(r, rows)
             IN  IF job_seeker_profile(d, user) = {} THEN Done(op, 404)
                 ELSE IF op.listing_id \notin {x.listing_id : x \in d.listings}
                 THEN Done(op, 500)
                 ELSE IF op.job_seeker_id \notin {x.job_seeker_id : x \in d.seekers}
                 THEN Done(op, 404)
                 ELSE IF \E a \in d.applications :
                            /\ a.listing_id = op.listing_id
                            /\ a.job_seeker_id = op.job_seeker_id
                 THEN Done(op, 400)
                 ELSE Pending(op)

\* delete_application / delete_application_by_id, up to the commit.
delete_application_by_id(op, rows, d, t, na) ==
    LET r == route(Routed["DELETE", ItemPath(S_applications, op.id)], "DELETE", ItemPath(S_applications, op.id), op.header, rows, t, na)
    IN  IF ~r.ran THEN Done(op, r.status)
        ELSE LET user == current_user(r, rows)
                 own == {x.job_seeker_id : x \in job_seeker_profile(d, user)}
                 app == {x \in d.applications : x.application_id = op.id}
             IN  IF own = {} THEN Done(op, 404)
                 ELSE IF app = {} THEN Done(op, 404)
                 ELSE IF \E a \in app : a.job_seeker_id \notin own THEN Done(op, 403)
                 ELSE Pending([op EXCEPT !.del = [NoDel EXCEPT !.applications = {op.id}]])

\* An Optional[int] form field that was not sent: None.
NoId == 0

\* update_listing / update_existing_listing, up to the commit: the row is
\* looked up and changed in the session, whoever the current user is.
update_existing_listing(op, rows, d, t, na) ==
    LET r == route(Routed["PATCH", ItemPath(S_listings, op.id)], "PATCH", ItemPath(S_listings, op.id), op.header, rows, t, na)
    IN  IF ~r.ran THEN Done(op, r.status)
        ELSE IF op.id \notin {x.listing_id : x \in d.listings} THEN Done(op, 404)
        ELSE Pending(op)

\* update_application / update_existing_application, up to the commit.
update_existing_application(op, rows, d, t, na) ==
    LET r == route(Routed["PATCH", ItemPath(S_applications, op.id)], "PATCH", ItemPath(S_applications, op.id), op.header, rows, t, na)
    IN  IF ~r.ran THEN Done(op, r.status)
        ELSE LET user == current_user(r, rows)
                 own == {x.job_seeker_id : x \in job_seeker_profile(d, user)}
                 mine == {x.recruiter_id : x \in recruiter_profile(d, user)}
                 app == {x \in d.applications : x.application_id = op.id}
                 is_seeker_owner ==
                     /\ user.role = job_seeker
                     /\ own # {}
                     /\ \A a \in app : a.job_seeker_id \in own
                 is_recruiter_owner ==
                     /\ user.role = recruiter
                     /\ mine # {}
                     /\ \A a \in app : \E l \in d.listings :
                            l.listing_id = a.listing_id /\ l.recruiter_id \in mine
             IN  IF own = {} THEN Done(op, 404)
                 ELSE IF app = {} THEN Done(op, 404)
                 ELSE IF ~(is_seeker_owner \/ is_recruiter_owner) THEN Done(op, 403)
                 ELSE Pending(op)

TableNames == {"seekers", "recruiters", "companies", "listings", "applications"}

\* The router prefix of a table.
Prefix(table) ==
    CASE table = "seekers" -> S_seekers
      [] table = "recruiters" -> S_recruiters
      [] table = "companies" -> S_companies
      [] table = "listings" -> S_listings
      [] table = "applications" -> S_applications

\* seekers_by_id, recruiters_by_id, company_by_id, listing_by_id and
\* application_by_id with their get_*_by_id: session.get, None is 404.
get_by_id(op, table, rows, d, t, na) ==
    LET r == route(Routed["GET", ItemPath(Prefix(table), op.id)], "GET", ItemPath(Prefix(table), op.id), op.header, rows, t, na)
    IN  IF ~r.ran THEN Done(op, r.status)
        ELSE IF op.id \in {pk(table, x) : x \in d[table]} THEN Done(op, 200)
        ELSE Done(op, 404)

\* What a commit leaves behind and the status the handler answers with.
Out(rows, nid, d, code) == [users |-> rows, next_id |-> nid, db |-> d, status |-> code]

\* session.add(row); await session.commit() of a create handler: the row is
\* stored under the next primary key (201) unless the database raises an
\* IntegrityError, which the handler answers with `on_error`.
commit_insert(op, rows, nid, d, table, row, on_error) ==
    LET d2 == [d EXCEPT ![table] = @ \cup {row}, !.next[table] = @ + 1]
    IN  IF constraints_hold(rows, d2) THEN Out(rows, nid, d2, 201)
        ELSE Out(rows, nid, d, on_error)

\* await session.delete(row); await session.commit() of a delete handler.
commit_delete(op, rows, nid, d, table) ==
    LET rows2 == delete_users(rows, op.del)
        d2 == delete_rows(d, op.del)
    IN  IF constraints_hold(rows2, d2) THEN Out(rows2, nid, d2, 204)
        ELSE Out(rows, nid, d, 500)

\* _update_listing_data_sync: the form fields that are not None, applied.
update_listing_row(row, op) ==
    IF op.title = Unset THEN row ELSE [row EXCEPT !.title = op.title]

\* _update_application_data_sync: the form fields that are not None, applied.
update_application_row(row, op) ==
    [row EXCEPT
        !.listing_id = IF op.listing_id = NoId THEN @ ELSE op.listing_id,
        !.job_seeker_id = IF op.job_seeker_id = NoId THEN @ ELSE op.job_seeker_id,
        !.status = IF op.app_status = Unset THEN @ ELSE op.app_status]

\* await session.commit() of an update handler: the changed row is written
\* (200); a row that is gone or a violated constraint is a SQLAlchemyError,
\* which the handler answers with 500.
commit_update(op, rows, nid, d, table) ==
    LET update_row(x) == IF table = "listings" THEN update_listing_row(x, op)
                         ELSE update_application_row(x, op)
        d2 == [d EXCEPT ![table] =
                  {IF pk(table, x) = op.id THEN update_row(x) ELSE x : x \in @}]
    IN  IF op.id \in {pk(table, x) : x \in d[table]} /\ constraints_hold(rows, d2)
        THEN Out(rows, nid, d2, 200)
        ELSE Out(rows, nid, d, 500)

\* await session.commit() and the except clauses around it, per handler.
session_commit(op, rows, nid, d) ==
    CASE op.kind = "register" ->
           LET rows2 == rows \cup {[id |-> nid, email |-> op.email, role |-> op.role]}
           IN  IF constraints_hold(rows2, d) THEN Out(rows2, nid + 1, d, 201)
               ELSE Out(rows, nid, d, 500)
      [] op.kind = "delete_me" -> commit_delete(op, rows, nid, d, "users")
      [] op.kind = "create_seeker" ->
           commit_insert(op, rows, nid, d, "seekers",
               [job_seeker_id |-> d.next.seekers, user_id |-> op.user_id,
                location |-> op.location], 400)
      [] op.kind = "update_seeker" ->
           IF op.id \in {x.job_seeker_id : x \in d.seekers}
           THEN Out(rows, nid,
                    [d EXCEPT !.seekers =
                        {IF x.job_seeker_id = op.id
                         THEN [x EXCEPT !.location = op.location] ELSE x : x \in @}],
                    200)
           ELSE Out(rows, nid, d, 500)
      [] op.kind = "delete_seeker" -> commit_delete(op, rows, nid, d, "seekers")
      [] op.kind = "create_recruiter" ->
           commit_insert(op, rows, nid, d, "recruiters",
               [recruiter_id |-> d.next.recruiters, user_id |-> op.user_id,
                company_id |-> op.company_id], 400)
      [] op.kind = "delete_recruiter" -> commit_delete(op, rows, nid, d, "recruiters")
      [] op.kind = "create_company" ->
           commit_insert(op, rows, nid, d, "companies",
               [company_id |-> d.next.companies, email |-> op.email], 400)
      [] op.kind = "delete_company" -> commit_delete(op, rows, nid, d, "companies")
      [] op.kind = "create_listing" ->
           commit_insert(op, rows, nid, d, "listings",
               [listing_id |-> d.next.listings, recruiter_id |-> op.recruiter_id,
                company_id |-> op.company_id, title |-> op.title], 400)
      [] op.kind = "update_listing" ->
           commit_update(op, rows, nid, d, "listings")
      [] op.kind = "delete_listing" -> commit_delete(op, rows, nid, d, "listings")
      [] op.kind = "create_application" ->
           commit_insert(op, rows, nid, d, "applications",
               [application_id |-> d.next.applications, listing_id |-> op.listing_id,
                job_seeker_id |-> op.job_seeker_id, status |-> op.app_status], 400)
      [] op.kind = "update_application" ->
           commit_update(op, rows, nid, d, "applications")
      [] op.kind = "delete_application" -> commit_delete(op, rows, nid, d, "applications")

\* ------------------------------------------------- resource actions
\* Requests of one kind that await their commit.
Committing(kind) == Cardinality({c \in Clients : ops[c].pc = "commit" /\ ops[c].kind = kind})

NewOp(kind, h) == [IdleOp EXCEPT !.kind = kind, !.header = h]

\* POST /users/register
Register(c) ==
    /\ ops[c].pc = "idle"
    /\ next_id + Committing("register") <= MaxUserId
    /\ \E e \in Emails, ro \in roles :
         ops' = [ops EXCEPT ![c] =
                    register_user_check([NewOp("register", NoHeader)
                                            EXCEPT !.email = e, !.role = ro], users)]
    /\ UNCHANGED <<role_map, users, next_id, now, req, pol, prof, db, patch, recipe_api>>

\* DELETE /users/me
DeleteUserMe(c) ==
    /\ ops[c].pc = "idle"
    /\ \E h \in Bearers, na \in NotAuthenticatedStatus :
         ops' = [ops EXCEPT ![c] =
                    delete_user_me_check(NewOp("delete_me", h), users, db, now, na)]
    /\ UNCHANGED <<role_map, users, next_id, now, req, pol, prof, db, patch, recipe_api>>

\* POST /seekers/
CreateJobSeeker(c) ==
    /\ ops[c].pc = "idle"
    /\ db.next.seekers + Committing("create_seeker") <= MaxRows
    /\ \E h \in Bearers, na \in NotAuthenticatedStatus :
         ops' = [ops EXCEPT ![c] =
                    create_new_seeker_profile(
                        [NewOp("create_seeker", h) EXCEPT !.location = "x"],
                        users, db, now, na)]
    /\ UNCHANGED <<role_map, users, next_id, now, req, pol, prof, db, patch, recipe_api>>

\* PATCH /seekers/{seeker_id}
UpdateSeekerProfile(c) ==
    /\ ops[c].pc = "idle"
    /\ \E h \in Bearers, na \in NotAuthenticatedStatus, i \in Ids, loc \in Locations :
         ops' = [ops EXCEPT ![c] =
                    update_existing_seeker_profile(
                        [NewOp("update_seeker", h) EXCEPT !.id = i, !.location = loc],
                        users, db, now, na)]
    /\ UNCHANGED <<role_map, users, next_id, now, req, pol, prof, db, patch, recipe_api>>

\* DELETE /seekers/{seeker_id}
DeleteSeeker(c) ==
    /\ ops[c].pc = "idle"
    /\ \E h \in Bearers, na \in NotAuthenticatedStatus, i \in Ids :
         ops' = [ops EXCEPT ![c] =
                    delete_seeker_profile_by_id(
                        [NewOp("delete_seeker", h) EXCEPT !.id = i], users, db, now, na)]
    /\ UNCHANGED <<role_map, users, next_id, now, req, pol, prof, db, patch, recipe_api>>

\* POST /recruiters/
AddRecruiters(c) ==
    /\ ops[c].pc = "idle"
    /\ db.next.recruiters + Committing("create_recruiter") <= MaxOwned
    /\ \E h \in Bearers, na \in NotAuthenticatedStatus, co \in Ids :
         ops' = [ops EXCEPT ![c] =
                    create_new_recruiter_profile(
                        [NewOp("create_recruiter", h) EXCEPT !.company_id = co],
                        users, db, now, na)]
    /\ UNCHANGED <<role_map, users, next_id, now, req, pol, prof, db, patch, recipe_api>>

\* DELETE /recruiters/{recruiter_id}
DeleteRecruiter(c) ==
    /\ ops[c].pc = "idle"
    /\ \E h \in Bearers, na \in NotAuthenticatedStatus, i \in Ids :
         ops' = [ops EXCEPT ![c] =
                    delete_recruiter_profile_by_id(
                        [NewOp("delete_recruiter", h) EXCEPT !.id = i], users, db, now, na)]
    /\ UNCHANGED <<role_map, users, next_id, now, req, pol, prof, db, patch, recipe_api>>

\* POST /companies/
CreateCompany(c) ==
    /\ ops[c].pc = "idle"
    /\ db.next.companies + Committing("create_company") <= MaxOwned
    /\ \E h \in Bearers, na \in NotAuthenticatedStatus, e \in CompanyEmails :
         ops' = [ops EXCEPT ![c] =
                    create_new_company(
                        [NewOp("create_company", h) EXCEPT !.email = e], users, db, now, na)]
    /\ UNCHANGED <<role_map, users, next_id, now, req, pol, prof, db, patch, recipe_api>>

\* DELETE /companies/{company_id}
DeleteCompany(c) ==
    /\ ops[c].pc = "idle"
    /\ \E h \in Bearers, na \in NotAuthenticatedStatus, i \in Ids :
         ops' = [ops EXCEPT ![c] =
                    delete_company_by_id(
                        [NewOp("delete_company", h) EXCEPT !.id = i], users, db, now, na)]
    /\ UNCHANGED <<role_map, users, next_id, now, req, pol, prof, db, patch, recipe_api>>

\* POST /listings/
CreateListing(c) ==
    /\ ops[c].pc = "idle"
    /\ db.next.listings + Committing("create_listing") <= MaxOwned
    /\ \E h \in Bearers, na \in NotAuthenticatedStatus, co \in Ids :
         ops' = [ops EXCEPT ![c] =
                    create_new_listing(
                        [NewOp("create_listing", h)
                            EXCEPT !.company_id = co, !.title = "x"],
                        users, db, now, na)]
    /\ UNCHANGED <<role_map, users, next_id, now, req, pol, prof, db, patch, recipe_api>>

\* DELETE /listings/{listing_id}
DeleteListing(c) ==
    /\ ops[c].pc = "idle"
    /\ \E h \in Bearers, na \in NotAuthenticatedStatus, i \in Ids :
         ops' = [ops EXCEPT ![c] =
                    delete_listing_by_id(
                        [NewOp("delete_listing", h) EXCEPT !.id = i], users, db, now, na)]
    /\ UNCHANGED <<role_map, users, next_id, now, req, pol, prof, db, patch, recipe_api>>

\* PATCH /listings/{listing_id}
UpdateListing(c) ==
    /\ ops[c].pc = "idle"
    /\ \E h \in Bearers, na \in NotAuthenticatedStatus, i \in Ids, ti \in {Unset, "y"} :
         ops' = [ops EXCEPT ![c] =
                    update_existing_listing(
                        [NewOp("update_listing", h) EXCEPT !.id = i, !.title = ti],
                        users, db, now, na)]
    /\ UNCHANGED <<role_map, users, next_id, now, req, pol, prof, db, patch, recipe_api>>

\* POST /applications/, while fewer than `limit` applications were inserted.
Apply(c, limit) ==
    /\ ops[c].pc = "idle"
    /\ db.next.applications + Committing("create_application") <= limit
    /\ \E h \in Bearers, na \in NotAuthenticatedStatus, l \in Ids, js \in Ids :
         ops' = [ops EXCEPT ![c] =
                    create_new_application(
                        [NewOp("create_application", h)
                            EXCEPT !.listing_id = l, !.job_seeker_id = js,
                                   !.app_status = pending],
                        users, db, now, na)]
    /\ UNCHANGED <<role_map, users, next_id, now, req, pol, prof, db, patch, recipe_api>>

CreateApplication(c) == Apply(c, MaxOwned)

\* PATCH /applications/{application_id}
UpdateApplication(c) ==
    /\ ops[c].pc = "idle"
    /\ \E h \in Bearers, na \in NotAuthenticatedStatus, i \in Ids,
          l \in {NoId} \cup Ids, js \in {NoId} \cup Ids, st \in {Unset, accepted} :
         ops' = [ops EXCEPT ![c] =
                    update_existing_application(
                        [NewOp("update_application", h)
                            EXCEPT !.id = i, !.listing_id = l, !.job_seeker_id = js,
                                   !.app_status = st],
                        users, db, now, na)]
    /\ UNCHANGED <<role_map, users, next_id, now, req, pol, prof, db, patch, recipe_api>>

\* DELETE /applications/{application_id}
DeleteApplication(c) ==
    /\ ops[c].pc = "idle"
    /\ \E h \in Bearers, na \in NotAuthenticatedStatus, i \in Ids :
         ops' = [ops EXCEPT ![c] =
                    delete_application_by_id(
                        [NewOp("delete_application", h) EXCEPT !.id = i], users, db, now, na)]
    /\ UNCHANGED <<role_map, users, next_id, now, req, pol, prof, db, patch, recipe_api>>

\* The kind of the DELETE /<resource>/{id} request of a table.
DeleteKind(table) ==
    CASE table = "seekers" -> "delete_seeker"
      [] table = "recruiters" -> "delete_recruiter"
      [] table = "companies" -> "delete_company"
      [] table = "listings" -> "delete_listing"
      [] table = "applications" -> "delete_application"

\* The client has just read 204 in answer to DELETE /<resource>/{id}.
JustDeleted(c, table, i) ==
    /\ ops[c].pc = "done"
    /\ ops[c].kind = DeleteKind(table)
    /\ ops[c].id = i
    /\ ops[c].status = 204

\* GET /<resource>/{id}, sent by a client that awaits no response or one
\* that reads back the row it has just deleted.
GetById(c) ==
    /\ \E table \in TableNames, h \in ClientHeaders, na \in NotAuthenticatedStatus, i \in Ids :
         /\ ops[c].pc = "idle" \/ JustDeleted(c, table, i)
         /\ ops' = [ops EXCEPT ![c] =
                       get_by_id([NewOp("get", h) EXCEPT !.id = i, !.table = table],
                                 table, users, db, now, na)]
    /\ UNCHANGED <<role_map, users, next_id, now, req, pol, prof, db, patch, recipe_api>>

\* The awaited commit of a handler returns or raises.
Commit(c) ==
    /\ ops[c].pc = "commit"
    /\ LET out == session_commit(ops[c], users, next_id, db)
       IN  /\ users' = out.users
           /\ next_id' = out.next_id
           /\ db' = out.db
           /\ ops' = [ops EXCEPT ![c] = Done(ops[c], out.status)]
    /\ UNCHANGED <<role_map, now, req, pol, prof, patch, recipe_api>>

\* The response has been sent.
Respond(c) ==
    /\ ops[c].pc = "done"
    /\ ops' = [ops EXCEPT ![c] = IdleOp]
    /\ UNCHANGED <<role_map, users, next_id, now, req, pol, prof, db, patch, recipe_api>>

\* Account and job-seeker profile requests of two concurrent clients.
NextRace ==
    \E c \in Clients :
        \/ Register(c)
        \/ DeleteUserMe(c)
        \/ CreateJobSeeker(c)
        \/ UpdateSeekerProfile(c)
        \/ DeleteSeeker(c)
        \/ Commit(c)
        \/ Respond(c)

SpecRace == Init /\ [][NextRace]_vars

\* Requests of one client, one at a time, over every resource.
NextCrud ==
    \/ Register(1)
    \/ DeleteUserMe(1)
    \/ CreateJobSeeker(1)
    \/ DeleteSeeker(1)
    \/ AddRecruiters(1)
    \/ DeleteRecruiter(1)
    \/ CreateCompany(1)
    \/ DeleteCompany(1)
    \/ CreateListing(1)
    \/ DeleteListing(1)
    \/ CreateApplication(1)
    \/ DeleteApplication(1)
    \/ Commit(1)
    \/ Respond(1)

SpecCrud == Init /\ [][NextCrud]_vars

\* The same requests, and reads by id.
NextRead ==
    \/ NextCrud
    \/ GetById(1)

SpecRead == Init /\ [][NextRead]_vars

\* The same requests, and updates of listings and applications.
NextEdit ==
    \/ NextCrud
    \/ UpdateListing(1)
    \/ UpdateApplication(1)

SpecEdit == Init /\ [][NextEdit]_vars

\* The tables once two job seekers have registered and created their
\* profiles and a recruiter has registered, created a company, a recruiter
\* profile and a listing.
SeededUsers ==
    { [id |-> 1, email |-> "a@x.io", role |-> job_seeker],
      [id |-> 2, email |-> "b@x.io", role |-> job_seeker],
      [id |-> 3, email |-> "r@x.io", role |-> recruiter] }

SeededDb ==
    [ EmptyDb EXCEPT
        !.seekers = { [job_seeker_id |-> 1, user_id |-> 1, location |-> "x"],
                      [job_seeker_id |-> 2, user_id |-> 2, location |-> "x"] },
        !.companies = { [company_id |-> 1, email |-> "hr@x.io"] },
        !.recruiters = { [recruiter_id |-> 1, user_id |-> 3, company_id |-> 1] },
        !.listings = { [listing_id |-> 1, recruiter_id |-> 1, company_id |-> 1,
                        title |-> "x"] },
        !.next = [ seekers |-> 3, recruiters |-> 2, companies |-> 2,
                   listings |-> 2, applications |-> 1 ] ]

InitApply ==
    /\ role_map = ROLE_MAP
    /\ users = SeededUsers
    /\ next_id = 4
    /\ now = 0
    /\ req = IdleReq
    /\ pol = IdlePol
    /\ prof = IdleProf
    /\ db = SeededDb
    /\ ops = IdleOps
    /\ patch = IdlePatch
    /\ recipe_api = IdleRecipes

\* Application requests of two concurrent clients.
NextApply ==
    \E c \in Clients :
        \/ Apply(c, MaxApplied)
        \/ UpdateApplication(c)
        \/ Commit(c)
        \/ Respond(c)

SpecApply == InitApply /\ [][NextApply]_vars

\* ------------------------------------------------- issued tokens
\* auth.create_access_token at time t: a signed token with the subject and
\* the standard expiry claim.
create_access_token(sub, t) == [kind |-> "signed", sub |-> sub, exp |-> t + TokenLife]

\* POST /users/login: with the right password the client is issued a token
\* for the stored principal of that email and keeps it as its Authorization
\* header; user_id remembers which principal the token was issued to (the
\* token itself carries the email and the expiry only).
login_for_access_token ==
    /\ ops[1].pc \in {"idle", "done"}
    /\ \E e \in Emails, password_ok \in BOOLEAN :
         LET found == get_db_user_by_username(users, e)
         IN  ops' = [ops EXCEPT ![1] =
                        IF found = {} \/ ~password_ok
                        THEN [IdleOp EXCEPT !.pc = "done", !.kind = "login",
                                            !.status = 401]
                        ELSE [IdleOp EXCEPT
                                 !.pc = "done", !.kind = "login", !.status = 200,
                                 !.user_id = (CHOOSE u \in found : TRUE).id,
                                 !.header = [scheme |-> "Bearer",
                                             cred |-> create_access_token(e, now)]]]
    /\ UNCHANGED <<role_map, users, next_id, now, req, pol, prof, db, patch, recipe_api>>

\* A request that carries the token the client was issued.
DispatchIssued ==
    /\ req.pc = "idle"
    /\ ops[1].kind = "login" /\ ops[1].status = 200
    /\ \E m \in Methods, p \in Paths :
         req' = gate_entry([IdleReq EXCEPT !.method = m, !.path = p,
                                           !.header = ops[1].header],
                           role_map, now)
    /\ UNCHANGED <<role_map, users, next_id, now, pol, others>>

NextToken ==
    \/ login_for_access_token
    \/ DispatchIssued
    \/ GateLookup
    \/ HandlerEntry
    \/ HandlerLookup
    \/ Complete
    \/ register_user
    \/ delete_user_me
    \/ Tick

SpecToken == Init /\ [][NextToken]_vars

\* ------------------------------------------- Recipe API requests
\* auth.verify_token of the Recipe API at time t: the subject, or None
\* (the empty text here) for a JWTError or a token without "sub".
recipe_verify_token(token, t) ==
    IF token.kind = "signed" /\ t < token.exp THEN token.sub ELSE ""

\* oauth2_scheme and get_current_user: the status they reject the request
\* with, or 0 when a user was resolved.
recipe_get_current_user(h, t) ==
    IF h.scheme \notin {"Bearer", "bearer"} THEN 401
    ELSE IF recipe_verify_token(h.cred, t) = "" THEN 401
    ELSE IF recipe_verify_token(h.cred, t) \notin recipe_api.users THEN 404
    ELSE 0

RecipeNames == {"soup", "stew"}

\* The response of the Recipe API to the request.
Replied(op, h, i, code) == [op |-> op, header |-> h, id |-> i, status |-> code]

\* POST /register
recipe_register_user ==
    /\ \E e \in Emails :
         recipe_api' =
             IF e \in recipe_api.users
             THEN [recipe_api EXCEPT !.resp = Replied("register", NoHeader, 0, 400)]
             ELSE [recipe_api EXCEPT !.users = @ \cup {e},
                                     !.resp = Replied("register", NoHeader, 0, 201)]
    /\ UNCHANGED <<role_map, users, next_id, now, req, pol, prof, db, ops, patch>>

\* POST /recipes/
insert_recipes ==
    /\ recipe_api.next <= MaxRecipes
    /\ \E h \in Headers, name \in RecipeNames :
         LET rejected == recipe_get_current_user(h, now)
         IN  recipe_api' =
                 IF rejected # 0
                 THEN [recipe_api EXCEPT !.resp = Replied("insert", h, 0, rejected)]
                 ELSE [recipe_api EXCEPT
                          !.recipes = @ \cup {[id |-> recipe_api.next, recipe_name |-> name]},
                          !.next = @ + 1,
                          !.resp = Replied("insert", h, recipe_api.next, 201)]
    /\ UNCHANGED <<role_map, users, next_id, now, req, pol, prof, db, ops, patch>>

\* PATCH /recipes/{recipe_id}/: RecipeUpdate requires every field, so a form
\* field that was not sent (Unset) fails its validation, which nothing
\* catches.
update_recipe_by_id ==
    /\ \E h \in Headers, i \in 1..MaxRecipes, name \in RecipeNames \cup {Unset} :
         LET rejected == recipe_get_current_user(h, now)
         IN  recipe_api' =
                 IF rejected # 0
                 THEN [recipe_api EXCEPT !.resp = Replied("update", h, i, rejected)]
                 ELSE IF i \notin {x.id : x \in recipe_api.recipes}
                 THEN [recipe_api EXCEPT !.resp = Replied("update", h, i, 404)]
                 ELSE IF name = Unset
                 THEN [recipe_api EXCEPT !.resp = Replied("update", h, i, 500)]
                 ELSE [recipe_api EXCEPT
                          !.recipes = {IF x.id = i THEN [x EXCEPT !.recipe_name = name]
                                       ELSE x : x \in @},
                          !.resp = Replied("update", h, i, 200)]
    /\ UNCHANGED <<role_map, users, next_id, now, req, pol, prof, db, ops, patch>>

\* DELETE /recipes/{recipe_id}/
delete_recipe_by_id ==
    /\ \E h \in Headers, i \in 1..MaxRecipes :
         recipe_api' =
             IF i \notin {x.id : x \in recipe_api.recipes}
             THEN [recipe_api EXCEPT !.resp = Replied("delete", h, i, 404)]
             ELSE [recipe_api EXCEPT !.recipes = {x \in @ : x.id # i},
                                     !.resp = Replied("delete", h, i, 204)]
    /\ UNCHANGED <<role_map, users, next_id, now, req, pol, prof, db, ops, patch>>

NextRecipes ==
    \/ recipe_register_user
    \/ insert_recipes
    \/ update_recipe_by_id
    \/ delete_recipe_by_id
    \/ Tick

SpecRecipes == Init /\ [][NextRecipes]_vars

\* ------------------------------------------------ PATCH requests
\* The request was answered with the code; the rows are as given.
Patched(code, rows) == [patch EXCEPT !.status = code, !.rows = rows]

\* The session.get of the row, sqlmodel_update and commit of an update.
apply_update ==
    Patched(200, [patch.rows EXCEPT ![patch.id] = sqlmodel_update(@, patch.body)])

\* The request body is validated against the route's model before the route
\* function runs.
body_valid == RequiredFields(patch.table) \subseteq model_dump(patch.body)

\* PATCH /companies/{company_id}: only a Recruiter may update.
update_company ==
    /\ patch.table = "companies" /\ patch.status = 0
    /\ patch' = IF ~body_valid THEN Patched(422, patch.rows)
                ELSE IF ~patch.authorized THEN Patched(403, patch.rows)
                ELSE apply_update
    /\ UNCHANGED <<role_map, users, next_id, now, req, pol, prof, db, ops, recipe_api>>

\* PATCH /recruiters/{recruiter_id}: only the profile's owner may update.
update_recruiter ==
    /\ patch.table = "recruiters" /\ patch.status = 0
    /\ patch' = IF ~body_valid THEN Patched(422, patch.rows)
                ELSE IF ~patch.authorized THEN Patched(403, patch.rows)
                ELSE apply_update
    /\ UNCHANGED <<role_map, users, next_id, now, req, pol, prof, db, ops, recipe_api>>

\* PATCH /seekers/{seeker_id}: only the profile's owner may update.
update_seeker_profile ==
    /\ patch.table = "seekers" /\ patch.status = 0
    /\ patch' = IF ~body_valid THEN Patched(422, patch.rows)
                ELSE IF ~patch.authorized THEN Patched(403, patch.rows)
                ELSE apply_update
    /\ UNCHANGED <<role_map, users, next_id, now, req, pol, prof, db, ops, recipe_api>>

\* PATCH /listings/{listing_id}: form parameters, all optional, and no
\* check of who the caller is.
update_listing ==
    /\ patch.table = "listings" /\ patch.status = 0
    /\ patch' = apply_update
    /\ UNCHANGED <<role_map, users, next_id, now, req, pol, prof, db, ops, recipe_api>>

\* PATCH /applications/{application_id}: form parameters, all optional; only
\* the applicant may update.
update_application ==
    /\ patch.table = "applications" /\ patch.status = 0
    /\ patch' = IF ~patch.authorized THEN Patched(403, patch.rows)
                ELSE apply_update
    /\ UNCHANGED <<role_map, users, next_id, now, req, pol, prof, db, ops, recipe_api>>

\* Every PATCH request with text values: the table, the row addressed, the
\* fields supplied, and whether the caller is the one the handler lets update.
InitPatch ==
    /\ role_map = ROLE_MAP
    /\ users = {}
    /\ next_id = 1
    /\ now = 0
    /\ req = IdleReq
    /\ pol = IdlePol
    /\ prof = IdleProf
    /\ db = EmptyDb
    /\ ops = IdleOps
    /\ recipe_api = IdleRecipes
    /\ \E table \in TableNames :
         patch \in [ table : {table}, id : 1..2,
                     body : [PatchFields(table) -> {Unset, "new"}],
                     authorized : BOOLEAN,
                     rows : {StoredRows(table)}, status : {0} ]

NextPatch ==
    \/ update_company
    \/ update_recruiter
    \/ update_seeker_profile
    \/ update_listing
    \/ update_application

SpecPatch == InitPatch /\ [][NextPatch]_vars

\* ------------------------------------------------- claim vocabulary
\* The indices of the table entries whose pattern matches the path.
Matching(table, path) == {i \in 1..Len(table) : re_match(table[i].pattern, path)}

\* The policy of the first matching entry in table order, if any.
FirstMatch(table, path) ==
    LET M == Matching(table, path)
    IN  IF M = {} THEN NoPolicy
        ELSE Policy(table[CHOOSE i \in M : \A j \in M : i <= j].roles)

\* The request is a GET of a public-read path.
PublicGet(r) == r.method = "GET" /\ bypass_match(r.path)

\* The request is subject to a policy entry: matched and not a public GET.
Governed(r) == FirstMatch(role_map, r.path).matched /\ ~PublicGet(r)

\* The header is "Bearer <token>" with a token that verifies at time t.
TokenValidAt(h, t) == h.scheme = "Bearer" /\ h.cred.kind = "signed" /\ t < h.cred.exp

\* The rows of the users table the token's subject names.
Principals(h) == {u \in users : u.email = h.cred.sub}

\* This step is the one in which dispatch settles the request.
GateDecides == req.pc \in {"idle", "gate_db"} /\ req'.pc \in {"handler", "done"}

\* The time at which the gate verified, or is verifying, the token.
VerifyTime == IF req.pc = "idle" THEN now ELSE req.t_verify

\* The gate answered the request itself: the handler never saw it.
GateRejected(r, code) ==
    /\ r.pc = "done" /\ r.by = "gate" /\ r.status = code
    /\ ~r.forwarded /\ ~r.ran

\* ----------------------------------------------------------- claims
\* C1: a governed request is forwarded iff its bearer token verifies and its
\* subject is a principal whose role is in the matched policy's set; a valid
\* token of an existing principal with another role gets 403 from the gate
\* and the handler is not invoked.
C1_ForwardIffAuthorized ==
    [][ (GateDecides /\ Governed(req')) =>
          LET allowed == FirstMatch(role_map, req'.path).roles
              valid == TokenValidAt(req'.header, VerifyTime)
              known == Principals(req'.header)
          IN  /\ req'.forwarded <=> (valid /\ \E u \in known : u.role \in allowed)
              /\ (valid /\ known # {} /\ \A u \in known : u.role \notin allowed)
                     => GateRejected(req', 403) ]_vars

C1_Witness ==
    /\ req.pc = "handler" /\ req.forwarded /\ Governed(req)
    /\ req.gate_lookups = 1 /\ req.gate_role \in req.required.roles

\* C2: a GET of a public-read path is forwarded without the gate reading the
\* Authorization header and without the gate acquiring a session, whatever
\* the header holds.
C2_PublicGetUnchecked ==
    (req.pc # "idle" /\ PublicGet(req)) =>
        /\ req.forwarded /\ req.by # "gate"
        /\ ~req.header_read
        /\ req.gate_sessions = 0 /\ req.gate_lookups = 0

C2_Witness ==
    /\ req.pc = "handler" /\ PublicGet(req) /\ FirstMatch(role_map, req.path).matched
    /\ req.header.scheme = "Bearer" /\ req.header.cred.kind = "badsig"

\* C3: a request of any method whose path matches no policy entry is
\* forwarded, whatever its Authorization header.
C3_NoPolicyForwarded ==
    (req.pc # "idle" /\ ~FirstMatch(role_map, req.path).matched) =>
        /\ req.forwarded /\ req.by # "gate"
        /\ req.gate_sessions = 0

C3_Witness ==
    /\ req.pc = "handler" /\ req.method = "DELETE" /\ req.path = S_users_me
    /\ req.header = NoHeader /\ ~FirstMatch(role_map, req.path).matched

\* C4: a governed request whose valid token names no principal is rejected by
\* the gate with 404 and the handler is not invoked.
C4_UnknownPrincipalNotFound ==
    [][ (GateDecides /\ Governed(req')
         /\ TokenValidAt(req'.header, VerifyTime) /\ Principals(req'.header) = {})
        => GateRejected(req', 404) ]_vars

C6_MissingBearerRejected ==
    (req.pc # "idle" /\ req.header.scheme # "Bearer" /\ Governed(req)) =>
        /\ GateRejected(req, 401)
        /\ req.gate_sessions = 0 /\ req.gate_lookups = 0

C6_Witness ==
    /\ GateRejected(req, 401) /\ Governed(req)
    /\ req.header.scheme = "bearer" /\ Principals(req.header) # {}

\* The path belongs to resource prefix P: P itself or P/<anything>.
UnderPrefix(P, path) ==
    \/ path = P
    \/ /\ Len(path) > Len(P)
       /\ SubSeq(path, 1, Len(P)) = P
       /\ path[Len(P) + 1] = "/"

\* This step produces the response of a request that reached a route function
\* of the router, or was answered by the gate.
Responds ==
    /\ req.pc # "done" /\ req'.pc = "done"
    /\ route_kind(req'.method, req'.path) \notin {"404", "405", "307"}

\* C7: every request to a /recruiters route made with the valid token of a
\* Job Seeker principal is answered 403, a GET of /recruiters/ included.
C7_SeekerForbiddenOnRecruiters ==
    [][ (Responds /\ UnderPrefix(S_recruiters, req'.path)
         /\ TokenValidAt(req'.header, now)
         /\ Principals(req'.header) # {}
         /\ \A u \in Principals(req'.header) : u.role = job_seeker)
        => req'.status = 403 ]_vars

\* C8: a GET of /seekers/, /companies/ or /listings/ with no Authorization
\* header is answered 200 with a list.
C8_PublicCollectionsReadable ==
    (/\ req.pc = "done" /\ req.method = "GET" /\ req.header = NoHeader
     /\ req.path \in {Slash(S_seekers), Slash(S_companies), Slash(S_listings)})
        => req.status = 200 /\ req.body = "list"

\* C9: whatever the ordered table and the path, the policy enforced is that
\* of the first entry, in table order, whose pattern matches.
C9_FirstMatchWins ==
    pol.looked => pol.required = FirstMatch(role_map, pol.path)

C9_Witness ==
    /\ pol.looked
    /\ \E i, j \in Matching(role_map, pol.path) :
         i < j /\ role_map[i].roles # role_map[j].roles
    /\ pol.required = Policy(role_map[1].roles)

\* C10: with the configured table, P, P/ and P/<further segments> are all
\* governed by the allowed-role set of the collection route P.
C10_PrefixSharesPolicy ==
    (pol.looked /\ role_map = ROLE_MAP) =>
        \A P \in Resources :
            UnderPrefix(P, pol.path) =>
                /\ pol.required.matched
                /\ pol.required = required_roles(ROLE_MAP, P)
                /\ pol.required = required_roles(ROLE_MAP, Slash(P))

C10_Witness ==
    /\ pol.looked /\ role_map = ROLE_MAP
    /\ pol.path = S_listings \o <<"/", "4", "a">>
    /\ pol.required = Policy({recruiter, job_seeker})

\* C11: an execution of the gate acquires at most one datastore session, for
\* the principal lookup, and releases it on every exit path (forwarded,
\* principal not found, role forbidden): the session is held only while the
\* lookup is pending, never once the gate has produced its outcome.
C11_GateSessionReleased ==
    /\ req.gate_sessions <= 1
    /\ req.gate_lookups <= req.gate_sessions
    /\ req.gate_open <=> req.pc = "gate_db"
    /\ req.pc = "gate_db" => req.gate_sessions = 1

\* The request was forwarded after the lookup and the session is released.
C11_Witness ==
    /\ req.pc = "handler" /\ req.forwarded
    /\ req.gate_sessions = 1 /\ req.gate_lookups = 1 /\ ~req.gate_open

\* The field holds something other than null and blanks.
Filled(seeker, field) ==
    \/ field \in IntFields
    \/ /\ seeker[field] # None
       /\ \E i \in 1..Len(seeker[field]) : seeker[field][i] \notin Whitespace

BioFields ==
    {"first_name", "last_name", "desired_job_title", "phone_number",
     "current_salary", "location"}

\* C12: the overall percentage is the sum of the weights (Bio 50, Experience
\* 30, Skills 20) of the complete groups, a group being complete iff each of
\* its fields is non-null and non-blank; each group percentage is 100 or 0.
\* All of Bio filled with Experience and Skills empty scores 50/100/0/0, and
\* blanking any one Bio field of a complete Bio group scores bio 0.
C12_ScoreIsWeightSum ==
    prof.scored =>
        LET s == prof.seeker
            r == prof.result
            bio == \A f \in BioFields : Filled(s, f)
            experience == Filled(s, "past_experience")
            skills == Filled(s, "skill_set")
        IN  /\ r.overall_percentage = (IF bio THEN 50 ELSE 0)
                   + (IF experience THEN 30 ELSE 0) + (IF skills THEN 20 ELSE 0)
            /\ r.bio_percentage = IF bio THEN 100 ELSE 0
            /\ r.experience_percentage = IF experience THEN 100 ELSE 0
            /\ r.skills_percentage = IF skills THEN 100 ELSE 0
            /\ (bio /\ s.past_experience \in {None, <<>>} /\ s.skill_set \in {None, <<>>})
                   => r = [ overall_percentage |-> 50, bio_percentage |-> 100,
                            experience_percentage |-> 0, skills_percentage |-> 0 ]
            /\ bio => \A f \in BioFields \ IntFields :
                   profile_completion_count([s EXCEPT ![f] = <<>>]).bio_percentage = 0

C12_Witness ==
    /\ prof.scored
    /\ \A f \in BioFields : Filled(prof.seeker, f)
    /\ prof.seeker.first_name = <<" ", "a", " ">>
    /\ prof.seeker.past_experience = <<" ">> /\ prof.seeker.skill_set = None
    /\ prof.result = [ overall_percentage |-> 50, bio_percentage |-> 100,
                       experience_percentage |-> 0, skills_percentage |-> 0 ]

\* Client c's request is answered in this step.
Answered(c, kind) ==
    ops[c].pc # "done" /\ ops'[c].pc = "done" /\ ops'[c].kind = kind

\* The principals a header's token names, and their job-seeker profiles.
Callers(h) == {u \in users : u.email = h.cred.sub}

SeekerProfilesOf(h) == {x \in db.seekers : x.user_id \in user_ids(Callers(h))}

\* C13: under every interleaving of job-seeker profile create, update and
\* delete requests (and of registrations and account deletions) no principal
\* ever has more than one job-seeker profile, and a create request answered
\* while its principal has a profile gets 400 and stores nothing.
C13_OneSeekerProfile ==
    [][ /\ \A x, y \in db'.seekers : x.user_id = y.user_id => x = y
        /\ \A c \in Clients :
             (Answered(c, "create_seeker") /\ SeekerProfilesOf(ops'[c].header) # {})
                 => ops'[c].status = 400 /\ db' = db ]_vars

\* Two create requests of one principal were in flight together: one is
\* answered 201, the other 400, and one profile is stored.
C13_Witness ==
    /\ ops[1].pc = "done" /\ ops[2].pc = "done"
    /\ ops[1].kind = "create_seeker" /\ ops[2].kind = "create_seeker"
    /\ ops[1].header = ops[2].header
    /\ {ops[1].status, ops[2].status} = {201, 400}
    /\ Cardinality(SeekerProfilesOf(ops[1].header)) = 1
    /\ db.next.seekers = 2

\* C14: under every interleaving of registrations no two principals share an
\* email, and a registration answered while its email is registered gets 400
\* and leaves the principals unchanged.
C14_UniqueEmail ==
    [][ /\ \A u, v \in users' : u.email = v.email => u = v
        /\ \A c \in Clients :
             (Answered(c, "register") /\ get_db_user_by_username(users, ops[c].email) # {})
                 => ops'[c].status = 400 /\ users' = users ]_vars

\* Every reference a stored row holds names a stored row.
NoDanglingReference(rows, d) ==
    /\ \A x \in d.seekers : \E u \in rows : u.id = x.user_id
    /\ \A x \in d.recruiters :
         /\ \E u \in rows : u.id = x.user_id
         /\ \E co \in d.companies : co.company_id = x.company_id
    /\ \A x \in d.listings :
         /\ \E re \in d.recruiters : re.recruiter_id = x.recruiter_id
         /\ \E co \in d.companies : co.company_id = x.company_id
    /\ \A x \in d.applications :
         /\ \E l \in d.listings : l.listing_id = x.listing_id
         /\ \E js \in d.seekers : js.job_seeker_id = x.job_seeker_id

\* C15: after any sequence of create and delete requests every profile
\* references a stored principal, every recruiter a stored company, every
\* listing a stored recruiter and company, every application a stored listing
\* and job seeker; and an account deletion answered 204 removes the principal
\* together with its job-seeker and recruiter profile.
C15_NoDanglingReference ==
    [][ /\ NoDanglingReference(users', db')
        /\ (Answered(1, "delete_me") /\ ops'[1].status = 204) =>
             LET who == user_ids(Callers(ops'[1].header))
             IN  /\ who # {}
                 /\ who \cap user_ids(users') = {}
                 /\ \A x \in db'.seekers : x.user_id \notin who
                 /\ \A x \in db'.recruiters : x.user_id \notin who ]_vars

\* A recruiter's account deletion answered 204 took the recruiter profile,
\* its listing and the application to that listing with it; the applicant's
\* profile is still stored.
C15_Witness ==
    /\ ops[1].pc = "done" /\ ops[1].kind = "delete_me" /\ ops[1].status = 204
    /\ ops[1].del.users # {}
    /\ ops[1].del.recruiters # {} /\ db.recruiters = {}
    /\ ops[1].del.listings # {} /\ db.listings = {}
    /\ ops[1].del.applications # {} /\ db.applications = {}
    /\ db.seekers # {} /\ db.companies # {}

\* The caller of the request just answered holds the role.
CallerHas(role) == \E u \in Callers(ops'[1].header) : u.role = role

\* C16: after any sequence of requests every job-seeker profile belongs to a
\* stored principal of role Job Seeker and every recruiter profile to one of
\* role Recruiter; a Recruiter's request to create a job-seeker profile, and a
\* Job Seeker's request to create a recruiter profile, is answered 403 and
\* leaves the tables as they were.
C16_ProfileMatchesRole ==
    [][ /\ \A x \in db'.seekers :
             \E u \in users' : u.id = x.user_id /\ u.role = job_seeker
        /\ \A x \in db'.recruiters :
             \E u \in users' : u.id = x.user_id /\ u.role = recruiter
        /\ (Answered(1, "create_seeker") /\ CallerHas(recruiter)) =>
             ops'[1].status = 403 /\ db' = db /\ users' = users
        /\ (Answered(1, "create_recruiter") /\ CallerHas(job_seeker)) =>
             ops'[1].status = 403 /\ db' = db /\ users' = users ]_vars

\* A Recruiter who has a recruiter profile asked for a job-seeker profile and
\* was answered 403.
C16_Witness ==
    /\ ops[1].pc = "done" /\ ops[1].kind = "create_seeker" /\ ops[1].status = 403
    /\ \E u \in users :
         /\ u.email = ops[1].header.cred.sub /\ u.role = recruiter
         /\ \E x \in db.recruiters : x.user_id = u.id
    /\ db.seekers = {} /\ db.next.seekers = 1

\* C17: a request to create an application made by a principal of role
\* Recruiter is answered 403 and stores no application.
C17_RecruiterCannotApply ==
    [][ (Answered(1, "create_application") /\ CallerHas(recruiter)) =>
            ops'[1].status = 403 /\ db'.applications = db.applications ]_vars

C19_DeletedIsNotFound ==
    [][ \A table \in TableNames, i \in Ids :
          (JustDeleted(1, table, i) /\ ops'[1].kind = "get"
             /\ ops'[1].table = table /\ ops'[1].id = i) =>
            ops'[1].status = 404 ]_vars

\* C20: a PATCH by an authorized caller that supplies only a subset of the
\* updatable fields is answered 200, sets exactly the supplied fields of the
\* addressed row to the supplied values, and leaves its other fields and the
\* other row as they were.
C20_PatchSetsExactlySupplied ==
    [][ (patch.status = 0 /\ patch'.status # 0 /\ patch.authorized) =>
            /\ patch'.status = 200
            /\ \A f \in PatchFields(patch.table) :
                 patch'.rows[patch.id][f] =
                     IF patch.body[f] # Unset THEN patch.body[f]
                     ELSE patch.rows[patch.id][f]
            /\ \A i \in 1..2 : i # patch.id => patch'.rows[i] = patch.rows[i] ]_vars

\* The profiles a delete request of the kind addresses: id and owner.
ProfileRows(d, kind) ==
    IF kind = "delete_seeker"
    THEN {[id |-> x.job_seeker_id, user_id |-> x.user_id] : x \in d.seekers}
    ELSE {[id |-> x.recruiter_id, user_id |-> x.user_id] : x \in d.recruiters}

\* C22: a delete request for a stored job-seeker or recruiter profile X made
\* by a stored principal that does not own X, with or without a profile of
\* its own, is answered 403 and X stays stored.
C22_OnlyOwnerDeletesProfile ==
    [][ \A kind \in {"delete_seeker", "delete_recruiter"} :
          ( /\ Answered(1, kind)
            /\ Callers(ops'[1].header) # {}
            /\ \E x \in ProfileRows(db, kind) :
                 /\ x.id = ops'[1].id
                 /\ x.user_id \notin user_ids(Callers(ops'[1].header)) ) =>
            /\ ops'[1].status = 403
            /\ \E x \in ProfileRows(db', kind) : x.id = ops'[1].id ]_vars

\* C25: while no listing is stored, so that every listing_id refers to no
\* stored listing, a request to create an application made by a principal
\* that has a job-seeker profile is answered with the not-found client error
\* of ListingNotFound (404, or 400 as the router maps it), never 500, and
\* stores nothing.
C25_MissingListingIsClientError ==
    [][ ( /\ Answered(1, "create_application")
          /\ db.listings = {}
          /\ SeekerProfilesOf(ops'[1].header) # {} ) =>
            /\ ops'[1].status \in {400, 404}
            /\ db' = db ]_vars

\* C23: every PATCH or DELETE on /listings/{id} made by a principal of role
\* Job Seeker is rejected with a client error and leaves the listings as they
\* were.
C23_SeekerNeverChangesListing ==
    [][ ( /\ Answered(1, "update_listing") \/ Answered(1, "delete_listing")
          /\ CallerHas(job_seeker) ) =>
            /\ ops'[1].status \in 400..499
            /\ db'.listings = db.listings ]_vars

\* The caller of the request just answered is a recruiter with a recruiter
\* profile that owns the listing the addressed application targets.
OwnsTargetListing ==
    \E u \in Callers(ops'[1].header), rp \in db.recruiters,
       a \in db.applications, l \in db.listings :
        /\ u.role = recruiter
        /\ rp.user_id = u.id
        /\ a.application_id = ops'[1].id
        /\ l.listing_id = a.listing_id
        /\ l.recruiter_id = rp.recruiter_id

\* C26: a PATCH /applications/{id} made by a recruiter who has a recruiter
\* profile and owns the listing the application targets is answered 200 and
\* the stored status becomes the requested value.
C26_RecruiterUpdatesStatus ==
    [][ (Answered(1, "update_application") /\ OwnsTargetListing) =>
            /\ ops'[1].status = 200
            /\ ops[1].pc = "commit"
            /\ \A a \in db'.applications :
                 (a.application_id = ops'[1].id /\ ops[1].app_status # Unset) =>
                     a.status = ops[1].app_status ]_vars

\* C21: after any interleaving of application create and update requests
\* there is at most one stored application for any pair (listing, job
\* seeker).
C21_OneApplicationPerPair ==
    \A a \in db.applications, b \in db.applications :
        (a.listing_id = b.listing_id /\ a.job_seeker_id = b.job_seeker_id) =>
            a.application_id = b.application_id

\* C28: an application stored by a POST /applications request carries the id
\* of the job-seeker profile of the principal that made the request.
C28_AppliesInOwnName ==
    [][ \A c \in Clients :
          (Answered(c, "create_application") /\ ops'[c].status = 201) =>
            \A a \in db'.applications \ db.applications :
                a.job_seeker_id \in
                    {x.job_seeker_id : x \in SeekerProfilesOf(ops'[c].header)} ]_vars

\* The route function selected for the request depends on get_current_user.
Protected(r) == route_kind(r.method, r.path) \notin {"404", "405", "307", "welcome", "open"}

\* The credentials of the header are a token that verifies at time t.
Verifies(h, t) == h.cred.kind = "signed" /\ t < h.cred.exp

\* get_current_user answered the request itself.
ResolutionRejected(r, code) ==
    /\ r.pc = "done" /\ r.by = "handler" /\ r.status = code
    /\ r.body = "none" /\ ~r.ran

C29_HandlerSeesGatePrincipal ==
    [][ (req.pc = "handler_db" /\ req'.ran /\ Governed(req)) =>
            \A u \in Principals(req.header) :
                /\ u.role = req.gate_role
                /\ u.role \in req.required.roles ]_vars

\* C27: in the Recipe API the stored recipes change only in answer to a
\* request that bears a valid token of an existing user.
C27_RecipesChangeOnlyForUsers ==
    [][ recipe_api'.recipes # recipe_api.recipes =>
            LET h == recipe_api'.resp.header
            IN  /\ h.scheme \in {"Bearer", "bearer"}
                /\ h.cred.kind = "signed" /\ now < h.cred.exp
                /\ h.cred.sub \in recipe_api.users ]_vars

\* The client holds a token that was issued to a principal that is no longer
\* stored: its account has been deleted (primary keys are not reused).
HoldsTokenOfDeleted ==
    /\ ops[1].kind = "login" /\ ops[1].status = 200
    /\ ops[1].user_id \notin user_ids(users)

\* C30: a request that carries a token issued to a principal whose account has
\* since been deleted is neither forwarded by the gate on a policy-protected
\* route nor resolved to a principal by get_current_user, whether or not the
\* email has been registered again.
C30_DeletedPrincipalsTokenRefused ==
    [][ (HoldsTokenOfDeleted /\ req'.header = ops[1].header) =>
            /\ (GateDecides /\ Governed(req')) => ~req'.forwarded
            /\ (req.pc = "handler_db" /\ req'.pc = "done") => ~req'.ran ]_vars

====
